---- MODULE Spec2Model ----
(***************************************************************************)
(* chart_app: the fieldname sanitizers of the upload paths and the         *)
(* SQL-shape classifier of chartapi.py.                                    *)
(*                                                                         *)
(* A Python str is a sequence of characters.  A character is a one-letter  *)
(* TLA+ string; a character outside ASCII is written by its code point     *)
(* ("U+00E9" is e-acute), and is still ONE element of the sequence.        *)
(***************************************************************************)
EXTENDS Integers, Sequences, FiniteSets, TLC

VARIABLES
    \* utils.py create_dynamic_doctype, one entry per running call
    columns, pc, col_i, fields, used_fieldnames,
    col_str, sanitized_fieldname, original_fieldname, counter, doctype,
    \* json_data.py determine_columns
    first_row, json_pc, json_i, fieldname, json_columns, child_tables,
    \* chartapi.py analyze_sql_query
    sql_query, sql_pc, sql_final, aggregations, group_by_match, order_by, limit,
    time_columns, select_clause, sql_columns, chart_type, x_axis, y_axis,
    sql_result,
    \* the suggestion whose sql_query field is being analyzed again
    previous_result,
    \* excel_process.py create_dynamic_doctype and insert_data_into_doctype
    xl_columns, xl_pc, xl_i, xl_fields, xl_written,
    \* json_data.py convert_dynamic_json_to_chart_dataset
    json_data, dyn_pc, dyn_k, label_field, value_field, dyn_result,
    \* json_data.py convert_uploaded_data_to_chart_dataset and
    \* create_table_from_insights_data, and the table they fill
    preview, up_pc, up_caller, up_calls, up_row, tbl_exists, tbl_creations,
    tbl_rows, label_field_index, value_field_index, up_result,
    \* utils.py insert_data_into_doctype
    data, ins_pc, ins_row, ins_inserted, ins_logged,
    \* chartapi.py main_parse_frappe
    parse_pc, parse_result

sanVars == <<columns, pc, col_i, fields, used_fieldnames,
             col_str, sanitized_fieldname, original_fieldname, counter, doctype>>

jsonVars == <<first_row, json_pc, json_i, fieldname, json_columns, child_tables>>

sqlVars == <<sql_query, sql_pc, sql_final, aggregations, group_by_match, order_by,
             limit, time_columns, select_clause, sql_columns, chart_type, x_axis,
             y_axis, sql_result, previous_result>>

excelVars == <<xl_columns, xl_pc, xl_i, xl_fields, xl_written>>

dynVars == <<json_data, dyn_pc, dyn_k, label_field, value_field, dyn_result>>

upVars == <<preview, up_pc, up_caller, up_calls, up_row, tbl_exists,
            tbl_creations, tbl_rows, label_field_index, value_field_index,
            up_result>>

insVars == <<data, ins_pc, ins_row, ins_inserted, ins_logged>>

parseVars == <<parse_pc, parse_result>>

hostVars == <<excelVars, dynVars, upVars, insVars, parseVars>>

vars == <<sanVars, jsonVars, sqlVars, hostVars>>

----------------------------------------------------------------------------
(* Characters and the str methods the code calls                           *)

AsciiUpper == <<"A","B","C","D","E","F","G","H","I","J","K","L","M",
                "N","O","P","Q","R","S","T","U","V","W","X","Y","Z">>
AsciiLower == <<"a","b","c","d","e","f","g","h","i","j","k","l","m",
                "n","o","p","q","r","s","t","u","v","w","x","y","z">>
AsciiDigit == <<"0","1","2","3","4","5","6","7","8","9">>

Range(s) == {s[k] : k \in 1..Len(s)}

\* Non-ASCII letters: upper-case / lower-case pairs (E-acute, e-acute;
\* S-cedilla, s-cedilla).
UnicodeUpper == <<"U+00C9", "U+015E">>
UnicodeLower == <<"U+00E9", "U+015F">>
\* LATIN CAPITAL LETTER I WITH DOT ABOVE: the one letter whose str.lower() is
\* two characters, i and COMBINING DOT ABOVE (a mark, not a \w character)
DottedI == "U+0130"
LowerDottedI == <<"i", "U+0307">>
\* Non-ASCII decimal digits (ARABIC-INDIC DIGIT TWO).
UnicodeDigit == {"U+0662"}

Min(a, b) == IF a < b THEN a ELSE b

UpperChars == Range(AsciiUpper) \cup Range(UnicodeUpper)
DigitChars == Range(AsciiDigit) \cup UnicodeDigit
WordChars ==
    Range(AsciiUpper) \cup Range(AsciiLower) \cup Range(AsciiDigit)
    \cup Range(UnicodeUpper) \cup Range(UnicodeLower) \cup UnicodeDigit
    \cup {"_", DottedI}

\* the lower-case letter of one character: what str.lower() gives for a
\* character that lowers to one character, and the letter that
\* re.IGNORECASE compares (the dotted capital I matches i)
LowerOf ==
    [c \in UpperChars |->
        IF c \in Range(AsciiUpper)
        THEN AsciiLower[CHOOSE k \in 1..Len(AsciiUpper) : AsciiUpper[k] = c]
        ELSE UnicodeLower[CHOOSE k \in 1..Len(UnicodeUpper) : UnicodeUpper[k] = c]]
LowerChar(c) ==
    IF c \in UpperChars THEN LowerOf[c] ELSE IF c = DottedI THEN "i" ELSE c

\* str.lower(): one character for each character, except that the dotted
\* capital I gives two, so the result can be longer than s
RECURSIVE LowerFrom(_, _)
LowerFrom(s, k) ==
    IF k > Len(s) THEN <<>>
    ELSE IF s[k] = DottedI THEN LowerDottedI \o LowerFrom(s, k + 1)
    ELSE LET stops == {j \in k..Len(s) : s[j] = DottedI}
             hi == IF stops = {} THEN Len(s) ELSE (CHOOSE j \in stops : \A x \in stops : j <= x) - 1
         IN  [j \in 1..(hi - k + 1) |-> LowerChar(s[k + j - 1])] \o LowerFrom(s, hi + 1)

Lower(s) ==
    IF \A k \in 1..Len(s) : s[k] # DottedI
    THEN [k \in 1..Len(s) |-> LowerChar(s[k])]
    ELSE LowerFrom(s, 1)

\* str.isdigit() of one character
IsDigit(c) == c \in DigitChars

\* \w of a str pattern (Unicode aware): alphanumerics and the underscore
IsWord(c) == c \in WordChars

\* str(n) of a non-negative int: its decimal digits
RECURSIVE IntToStr(_)
IntToStr(n) ==
    IF n < 10 THEN <<AsciiDigit[n + 1]>>
    ELSE IntToStr(n \div 10) \o <<AsciiDigit[(n % 10) + 1]>>

\* re.sub(r'\W+', '_', s): every maximal run of non-word characters
\* becomes one underscore.  SubNonWordAt is what the substitution leaves of
\* the characters lo..hi of s: a word character stays, the first character
\* of a run becomes the underscore, the rest of the run goes.
RECURSIVE SubNonWordAt(_, _, _)
SubNonWordAt(s, lo, hi) ==
    IF lo > hi THEN <<>>
    ELSE IF lo = hi
    THEN IF IsWord(s[lo]) THEN <<s[lo]>>
         ELSE IF lo > 1 /\ ~IsWord(s[lo - 1]) THEN <<>>
         ELSE <<"_">>
    ELSE LET mid == (lo + hi) \div 2
         IN  SubNonWordAt(s, lo, mid) \o SubNonWordAt(s, mid + 1, hi)

SubNonWord(s) == SubNonWordAt(s, 1, Len(s))

\* str.strip('_')
RECURSIVE LStrip(_)
LStrip(s) == IF s # <<>> /\ Head(s) = "_" THEN LStrip(Tail(s)) ELSE s
RECURSIVE RStrip(_)
RStrip(s) ==
    IF s # <<>> /\ s[Len(s)] = "_" THEN RStrip(SubSeq(s, 1, Len(s) - 1)) ELSE s
Strip(s) == RStrip(LStrip(s))

----------------------------------------------------------------------------
(* utils.py create_dynamic_doctype: the per-column sanitizer               *)

\* str(col)[:140]
MaxFieldLen == 140
\* variant: the label is not cut
Truncate_Not(col) == col

Truncate(col) == SubSeq(col, 1, Min(Len(col), MaxFieldLen))

\* lines 138-139: each call works on the value the one before it returned
Normalize(s) ==
    CHOOSE stripped \in {Strip(subbed) :
                            subbed \in {SubNonWord(lowered) :
                                           lowered \in {Lower(s)}}} : TRUE

\* variant: a leading digit is left alone
DigitPrefix_Never(s) == s

\* lines 142-143
DigitPrefix(s) == IF s # <<>> /\ IsDigit(s[1]) THEN <<"_">> \o s ELSE s

\* variant: the placeholder counts from 1
Placeholder_OneBased(flds) ==
    <<"f","i","e","l","d","_">> \o IntToStr(Len(flds) + 1)

\* line 147: f"field_{len(fields)}"
Placeholder(flds) == <<"f","i","e","l","d","_">> \o IntToStr(Len(flds))

\* lines 146-147
OrPlaceholder(s, flds) == IF s = <<>> THEN Placeholder(flds) ELSE s

\* lines 138-147: the fieldname before the uniqueness loop
Candidate(cs, flds) ==
    CHOOSE name \in {OrPlaceholder(DigitPrefix(normal), flds) :
                        normal \in {Normalize(cs)}} : TRUE

\* variant: the suffix is one ahead of the counter
Suffixed_SkipsOne(orig, n) == orig \o <<"_">> \o IntToStr(n + 1)

\* line 153: f"{original_fieldname}_{counter}"
Suffixed(orig, n) == orig \o <<"_">> \o IntToStr(n)

\* line 152: the loop test
InUsed(name, used) == name \in used

\* variant: the name is not recorded
AddUsed_Forgets(used, name) == used

\* line 156
AddUsed(used, name) == used \cup {name}

\* lines 158-162
Field(name, label) == [fieldname |-> name, fieldtype |-> "Data", label |-> label]

----------------------------------------------------------------------------
(* json_data.py: sanitize_fieldname and determine_columns                  *)

RESERVED_KEYWORDS == {
    <<"m","e","t","a">>,
    <<"d","o","c","t","y","p","e">>,
    <<"n","a","m","e">>,
    <<"p","a","r","e","n","t">>,
    <<"o","w","n","e","r">>,
    <<"m","o","d","i","f","i","e","d">>,
    <<"i","d","x">>,
    <<"c","r","e","a","t","i","o","n">>,
    <<"m","o","d","i","f","i","e","d","_","b","y">>,
    <<"p","a","r","e","n","t","f","i","e","l","d">>,
    <<"p","a","r","e","n","t","t","y","p","e">>,
    <<"d","o","c","s","t","a","t","u","s">>,
    <<"n","a","m","i","n","g","_","s","e","r","i","e","s">> }

\* str.replace(" ", "_")
ReplaceSpaces(s) == [k \in 1..Len(s) |-> IF s[k] = " " THEN "_" ELSE s[k]]

\* line 56: f"{sanitized}_field"
FieldSuffix(s) == s \o <<"_","f","i","e","l","d">>

\* variant: the reserved-word test sees the key as given
sanitize_fieldname_TestsRawKey(key) ==
    LET sanitized == ReplaceSpaces(Lower(key))
    IN  IF key \in RESERVED_KEYWORDS THEN FieldSuffix(sanitized) ELSE sanitized

\* lines 49-58
sanitize_fieldname(key) ==
    LET sanitized == ReplaceSpaces(Lower(key))
    IN  IF sanitized \in RESERVED_KEYWORDS THEN FieldSuffix(sanitized) ELSE sanitized

\* lines 72-84: the field type of a value, by the isinstance chain
FieldTypeOf(value) ==
    CASE value = "list"  -> "Table"
      [] value = "bool"  -> "Check"
      [] value = "int"   -> "Int"
      [] value = "float" -> "Float"
      [] OTHER           -> "Data"

\* dict assignment d[k] = v
DictSet(d, k, v) == [x \in DOMAIN d \cup {k} |-> IF x = k THEN v ELSE d[x]]
EmptyDict == [x \in {} |-> x]

K_name        == <<"n","a","m","e">>
K_Name        == <<"N","a","m","e">>
K_ModifiedBy  == <<"M","o","d","i","f","i","e","d"," ","B","y">>
K_name_field  == <<"n","a","m","e","_","f","i","e","l","d">>
K_UnitPrice   == <<"U","n","i","t"," ","P","r","i","c","e">>
K_DocType     == <<"D","o","c","T","y","p","e">>
K_tags        == <<"t","a","g","s">>
K_naming      == <<"n","a","m","i","n","g"," ","s","e","r","i","e","s">>

Keys == {K_name, K_Name, K_ModifiedBy, K_name_field, K_UnitPrice, K_DocType,
         K_tags, K_naming}
ValueKinds == {"list", "bool", "int", "float", "str"}

\* the most keys the first record carries
MaxKeys == 2

\* a record is a dict: its keys are distinct
Rows ==
    {r \in UNION {[1..n -> [key : Keys, value : ValueKinds]] : n \in 0..MaxKeys} :
        \A j, k \in 1..Len(r) : j # k => r[j].key # r[k].key}

\* lines 64-66
JsonInit ==
    /\ first_row \in Rows
    /\ json_pc = "for"
    /\ json_i = 1
    /\ fieldname = <<>>
    /\ json_columns = EmptyDict
    /\ child_tables = EmptyDict

JsonIdle ==
    /\ first_row = <<>>
    /\ json_pc = "idle"
    /\ json_i = 1
    /\ fieldname = <<>>
    /\ json_columns = EmptyDict
    /\ child_tables = EmptyDict

----------------------------------------------------------------------------
(* chartapi.py: the str and re primitives of the classifier.               *)
(* Indices are 1-based; a search that finds nothing gives 0.               *)

\* \s of a str pattern, and the separators of str.split()
IsSpace(c) == c \in {" ", "\t", "\n", "\r"}

MinOf(S) == CHOOSE x \in S : \A y \in S : x <= y

\* str.find(sub, start)
Find(s, sub, start) ==
    LET hits == {i \in start..(Len(s) - Len(sub) + 1) :
                    \A k \in 1..Len(sub) : s[i + k - 1] = sub[k]}
    IN  IF hits = {} THEN 0 ELSE MinOf(hits)

\* `sub in s`
Contains(s, sub) == Find(s, sub, 1) # 0

\* a literal of a re.IGNORECASE pattern matches at index i
LitAt(s, i, lit) ==
    /\ i >= 1
    /\ i + Len(lit) - 1 <= Len(s)
    /\ \A k \in 1..Len(lit) : LowerChar(s[i + k - 1]) = LowerChar(lit[k])

\* a literal of a case-sensitive pattern matches at index i
LitAtExact(s, i, lit) ==
    /\ i >= 1
    /\ i + Len(lit) - 1 <= Len(s)
    /\ \A k \in 1..Len(lit) : s[i + k - 1] = lit[k]

\* \b between the characters i-1 and i
WordBefore(s, i) == i > 1 /\ i - 1 <= Len(s) /\ IsWord(s[i - 1])
WordAt(s, i) == i >= 1 /\ i <= Len(s) /\ IsWord(s[i])
Boundary(s, i) == WordBefore(s, i) # WordAt(s, i)

SpaceAt(s, i) == i >= 1 /\ i <= Len(s) /\ IsSpace(s[i])

\* a greedy \s* or \s+ from index i: the index of the first character
\* after the run
SpaceEnd(s, i) ==
    MinOf({j \in i..(Len(s) + 1) : j = Len(s) + 1 \/ ~IsSpace(s[j])})

\* a greedy \w+ from index i: the index of the first character after it
WordEnd(s, i) ==
    MinOf({j \in i..(Len(s) + 1) : j = Len(s) + 1 \/ ~IsWord(s[j])})

\* the indices of s, in order
Indices(s) == [p \in 1..Len(s) |-> p]

\* ' '.join(s.split()): whitespace runs inside the text become one space,
\* those at its ends go
Collapse(s) ==
    LET Keep(p) ==
            \/ ~IsSpace(s[p])
            \/ /\ p > 1
               /\ ~IsSpace(s[p - 1])
               /\ \E q \in (p + 1)..Len(s) : ~IsSpace(s[q])
        at == SelectSeq(Indices(s), Keep)
    IN  [k \in 1..Len(at) |-> IF IsSpace(s[at[k]]) THEN " " ELSE s[at[k]]]

\* str.strip()
StripSpace(s) ==
    LET ink == {k \in 1..Len(s) : ~IsSpace(s[k])}
    IN  IF ink = {} THEN <<>>
        ELSE SubSeq(s, MinOf(ink), CHOOSE k \in ink : \A j \in ink : j <= k)

\* str.strip('"')
StripQuote(s) ==
    LET ink == {k \in 1..Len(s) : s[k] # "\""}
    IN  IF ink = {} THEN <<>>
        ELSE SubSeq(s, MinOf(ink), CHOOSE k \in ink : \A j \in ink : j <= k)

----------------------------------------------------------------------------
(* chartapi.py refine_sql_query                                            *)

\* lines 97-98
keywords == <<
    <<"S","E","L","E","C","T">>, <<"F","R","O","M">>, <<"W","H","E","R","E">>, <<"G","R","O","U","P"," ","B","Y">>, <<"O","R","D","E","R"," ","B","Y">>, <<"H","A","V","I","N","G">>,
    <<"J","O","I","N">>, <<"L","E","F","T"," ","J","O","I","N">>, <<"R","I","G","H","T"," ","J","O","I","N">>, <<"I","N","N","E","R"," ","J","O","I","N">>, <<"O","U","T","E","R"," ","J","O","I","N">>,
    <<"O","N">>, <<"A","N","D">>, <<"O","R">>, <<"A","S">> >>

\* variant: the keyword is matched anywhere, inside longer words too
KeywordAt_InsideWords(s, i, keyword) == LitAt(s, i, keyword)

\* r'\b' + keyword.lower() + r'\b' matches at index i (re.IGNORECASE: the
\* letters of the text and of the pattern are compared lower-cased)
KeywordAt(s, i, keyword) ==
    /\ Boundary(s, i)
    /\ Boundary(s, i + Len(keyword))
    /\ LitAt(s, i, keyword)

\* line 100: re.sub of one keyword; a match and its replacement have the
\* same length, so the text keeps its length
SubKeyword(s, keyword) ==
    LET starts == {i \in 1..(Len(s) - Len(keyword) + 1) : KeywordAt(s, i, keyword)}
    IN  IF starts = {} THEN s
        ELSE [p \in 1..Len(s) |->
                 IF \E i \in starts : i <= p /\ p < i + Len(keyword)
                 THEN keyword[p - (CHOOSE i \in starts :
                                      i <= p /\ p < i + Len(keyword)) + 1]
                 ELSE s[p]]

\* lines 99-100: the loop over the keywords
RECURSIVE SubKeywords(_, _)
SubKeywords(s, kws) ==
    IF kws = <<>> THEN s ELSE SubKeywords(SubKeyword(s, Head(kws)), Tail(kws))

\* variant: the slice stops one character short
CutStatement_DropsLast(q, select_start) ==
    LET semi == Find(Lower(q), <<";">>, select_start)
        query_end == IF semi = 0 THEN Len(q) - 1 ELSE semi - 1
    IN  Collapse(SubSeq(q, select_start, Min(query_end, Len(q))))

\* lines 88-95: the indices are those of sql_lower, the slice is one of
\* sql_query (a slice stops at the end of the text)
CutStatement(q, select_start) ==
    LET semi == Find(Lower(q), <<";">>, select_start)
        query_end == IF semi = 0 THEN Len(q) ELSE semi
    IN  Collapse(SubSeq(q, select_start, Min(query_end, Len(q))))

\* lines 82-102
refine_sql_query(q) ==
    LET select_start == Find(Lower(q), <<"s","e","l","e","c","t">>, 1)
    IN  IF select_start = 0 THEN q
        ELSE SubKeywords(CutStatement(q, select_start), keywords)

----------------------------------------------------------------------------
(* chartapi.py analyze_sql_query: the pattern searches of lines 133-138.   *)
(* A match object is [matched, group1]; None is NoMatch.                   *)

NoMatch == [matched |-> FALSE, group1 |-> <<>>]
Match(g) == [matched |-> TRUE, group1 |-> g]

\* line 133: the alternatives of (sum|avg|count|max|min)
AggNames == <<<<"s","u","m">>, <<"a","v","g">>, <<"c","o","u","n","t">>, <<"m","a","x">>, <<"m","i","n">>>>

\* (sum|avg|count|max|min)\s*\( matches at index i with alternative a
AggAltAt(s, i, a) ==
    /\ LitAt(s, i, AggNames[a])
    /\ LET e == SpaceEnd(s, i + Len(AggNames[a]))
       IN  e <= Len(s) /\ s[e] = "("

\* line 133: re.findall gives the text of group 1 of every match, in
\* order; no alternative overlaps another, so every index that matches
\* starts a match
FindAggregations(s) ==
    LET Hit(i) == \E a \in 1..Len(AggNames) : AggAltAt(s, i, a)
        at == SelectSeq(Indices(s), Hit)
    IN  [k \in 1..Len(at) |->
            LET a == CHOOSE a \in 1..Len(AggNames) : AggAltAt(s, at[k], a)
            IN  SubSeq(s, at[k], at[k] + Len(AggNames[a]) - 1)]

\* \border\s+by at index p
OrderByAt(s, p) ==
    /\ Boundary(s, p)
    /\ LitAt(s, p, <<"o","r","d","e","r">>)
    /\ SpaceAt(s, p + 5)
    /\ LitAt(s, SpaceEnd(s, p + 5), <<"b","y">>)

\* \blimit\b at index p
LimitAt(s, p) ==
    /\ Boundary(s, p)
    /\ LitAt(s, p, <<"l","i","m","i","t">>)
    /\ Boundary(s, p + 5)

\* $ at index p: the end of the text, or just before its last newline
DollarAt(s, p) == p = Len(s) + 1 \/ (p = Len(s) /\ s[p] = "\n")

\* (?:\border\s+by|\blimit\b|;\s*$|\\\s*$|$) at index p
GroupByStopAt(s, p) ==
    \/ OrderByAt(s, p)
    \/ LimitAt(s, p)
    \/ p <= Len(s) /\ s[p] = ";" /\ SpaceEnd(s, p + 1) = Len(s) + 1
    \/ p <= Len(s) /\ s[p] = "\\" /\ SpaceEnd(s, p + 1) = Len(s) + 1
    \/ DollarAt(s, p)

\* \bgroup\s+by\s+(.+?) from index i: the index where group 1 starts, 0
\* when the head does not match.  The greedy \s+ takes the whole run; when
\* the run reaches the end of the text it gives its last character back
\* to the group.
GroupByHead(s, i) ==
    IF /\ Boundary(s, i)
       /\ LitAt(s, i, <<"g","r","o","u","p">>)
       /\ SpaceAt(s, i + 5)
       /\ LitAt(s, SpaceEnd(s, i + 5), <<"b","y">>)
       /\ SpaceAt(s, SpaceEnd(s, i + 5) + 2)
    THEN LET a == SpaceEnd(s, i + 5) + 2
             b == SpaceEnd(s, a)
         IN  IF b <= Len(s) THEN b
             ELSE IF b - a >= 2 THEN Len(s)
             ELSE 0
    ELSE 0

\* line 134: re.search, the leftmost match; (.+?) is the shortest text
\* after which the stop matches, and $ stops every text at the latest
SearchGroupBy(s) ==
    LET starts == {i \in 1..Len(s) : GroupByHead(s, i) # 0}
    IN  IF starts = {} THEN NoMatch
        ELSE LET g == GroupByHead(s, MinOf(starts))
                 e == MinOf({e \in g..Len(s) : GroupByStopAt(s, e + 1)})
             IN  Match(SubSeq(s, g, e))

\* line 135: \border\s+by\b
SearchOrderBy(s) ==
    \E i \in 1..Len(s) :
        OrderByAt(s, i) /\ Boundary(s, SpaceEnd(s, i + 5) + 2)

\* line 136: \blimit\b
SearchLimit(s) == \E i \in 1..Len(s) : LimitAt(s, i)

\* line 137: the words of \b(date|time|year|month|day)\b; the pattern is
\* compiled without re.IGNORECASE
TimeWords == <<<<"d","a","t","e">>, <<"t","i","m","e">>, <<"y","e","a","r">>, <<"m","o","n","t","h">>, <<"d","a","y">>>>

TimeWordAt(s, i, w) ==
    /\ LitAtExact(s, i, TimeWords[w])
    /\ Boundary(s, i)
    /\ Boundary(s, i + Len(TimeWords[w]))

FindTimeColumns(s) ==
    LET Hit(i) == \E w \in 1..Len(TimeWords) : TimeWordAt(s, i, w)
        at == SelectSeq(Indices(s), Hit)
    IN  [k \in 1..Len(at) |->
            TimeWords[CHOOSE w \in 1..Len(TimeWords) : TimeWordAt(s, at[k], w)]]

\* \s+from at index p
SpaceFromAt(s, p) == SpaceAt(s, p) /\ LitAt(s, SpaceEnd(s, p), <<"f","r","o","m">>)

\* variant: the pattern lacks its leading select\s+
SelectEnds_AnyStart(s, i) ==
    {e \in i..Len(s) : SpaceFromAt(s, e + 1)}

\* select\s+(.+?)\s+from from index i: the indices at which group 1 may
\* end.  The text searched has single spaces only (it is the output of
\* Collapse whenever it holds a "select"), so \s+ has one way to match.
SelectEnds(s, i) ==
    IF LitAt(s, i, <<"s","e","l","e","c","t">>) /\ SpaceAt(s, i + 6)
    THEN {e \in SpaceEnd(s, i + 6)..Len(s) : SpaceFromAt(s, e + 1)}
    ELSE {}

\* line 138: re.search, the leftmost match with the shortest group 1
SearchSelect(s) ==
    LET starts == {i \in 1..Len(s) : SelectEnds(s, i) # {}}
    IN  IF starts = {} THEN NoMatch
        ELSE LET i == MinOf(starts)
             IN  Match(SubSeq(s, SpaceEnd(s, i + 6), MinOf(SelectEnds(s, i))))

\* ["\w\s/]
ColumnChar(c) == c = "\"" \/ IsWord(c) \/ IsSpace(c) \/ c = "/"

\* \s+word\s+ at index p: the index after it, 0 when it does not match
SpacedWordEnd(t, p, word) ==
    IF /\ SpaceAt(t, p)
       /\ LitAt(t, SpaceEnd(t, p), word)
       /\ SpaceAt(t, SpaceEnd(t, p) + Len(word))
    THEN SpaceEnd(t, SpaceEnd(t, p) + Len(word))
    ELSE 0

\* (?:,|\s+as\s+|\s+from\s+) at index p: the index after it, 0 when it
\* does not match
ColumnStopEnd(t, p) ==
    IF p <= Len(t) /\ t[p] = "," THEN p + 1
    ELSE IF SpacedWordEnd(t, p, <<"a","s">>) # 0 THEN SpacedWordEnd(t, p, <<"a","s">>)
    ELSE SpacedWordEnd(t, p, <<"f","r","o","m">>)

\* (["\w\s/]+?) from index i: the indices at which group 1 may end
ColumnEnds(t, i) ==
    LET run_end == MinOf({k \in i..(Len(t) + 1) :
                             k = Len(t) + 1 \/ ~ColumnChar(t[k])})
    IN  {e \in i..(run_end - 1) : ColumnStopEnd(t, e + 1) # 0}

\* line 143: re.findall from index i on: the leftmost match, its shortest
\* group 1, then on from the end of that match
RECURSIVE FindColumnsFrom(_, _)
FindColumnsFrom(t, i) ==
    LET starts == {j \in i..Len(t) : ColumnEnds(t, j) # {}}
    IN  IF starts = {} THEN <<>>
        ELSE LET j == MinOf(starts)
                 e == MinOf(ColumnEnds(t, j))
             IN  <<SubSeq(t, j, e)>> \o FindColumnsFrom(t, ColumnStopEnd(t, e + 1))

\* lines 143-144
FindColumns(t) ==
    LET found == FindColumnsFrom(t, 1)
    IN  [k \in 1..Len(found) |-> StripQuote(StripSpace(found[k]))]

\* line 174: \bas\s+(\w+), the leftmost match
SearchAs(s) ==
    LET Hit(i) ==
            /\ Boundary(s, i)
            /\ LitAt(s, i, <<"a","s">>)
            /\ SpaceAt(s, i + 2)
            /\ WordAt(s, SpaceEnd(s, i + 2))
        starts == {i \in 1..Len(s) : Hit(i)}
    IN  IF starts = {} THEN NoMatch
        ELSE LET b == SpaceEnd(s, MinOf(starts) + 2)
             IN  Match(SubSeq(s, b, WordEnd(s, b) - 1))

----------------------------------------------------------------------------
(* chartapi.py analyze_sql_query: the decision of lines 140-183            *)

\* any(agg in col.lower() for agg in aggregations)
HasAggregation(col, aggs) ==
    \E a \in 1..Len(aggs) : Contains(Lower(col), aggs[a])

\* next((col for col in columns if any(...)), default)
FirstAggregated(cols, aggs, default) ==
    LET hits == {k \in 1..Len(cols) : HasAggregation(cols[k], aggs)}
    IN  IF hits = {} THEN default ELSE cols[MinOf(hits)]

\* ', '.join(cols)
RECURSIVE JoinComma(_)
JoinComma(cols) ==
    IF cols = <<>> THEN <<>>
    ELSE IF Len(cols) = 1 THEN cols[1]
    ELSE cols[1] \o <<",", " ">> \o JoinComma(Tail(cols))

\* ', '.join(columns[1:]) if len(columns) > 1 else ''
RestJoined(cols) == IF Len(cols) > 1 THEN JoinComma(Tail(cols)) ELSE <<>>

\* variant: the time rows are read before the ORDER BY and LIMIT row
GroupedChartType_TimeFirst(aggs, has_order_by, has_limit, times) ==
    IF times # <<>>
    THEN (IF Len(aggs) = 1 THEN "line" ELSE "multi-series line")
    ELSE IF has_order_by /\ has_limit THEN "bar"
    ELSE (IF Len(aggs) = 1 THEN "bar" ELSE "multi-series bar")

\* lines 150-155
GroupedChartType(aggs, has_order_by, has_limit, times) ==
    IF has_order_by /\ has_limit THEN "bar"
    ELSE IF times # <<>>
    THEN (IF Len(aggs) = 1 THEN "line" ELSE "multi-series line")
    ELSE (IF Len(aggs) = 1 THEN "bar" ELSE "multi-series bar")

\* line 141
Degenerate == [kind |-> "return", has_sql_query |-> FALSE, sql_query |-> <<>>,
               chart_type |-> "table", x_axis |-> <<>>, y_axis |-> <<>>]

\* lines 178-183
Suggestion(final, type, x, y) ==
    [kind |-> "return", has_sql_query |-> TRUE, sql_query |-> final,
     chart_type |-> type, x_axis |-> x, y_axis |-> y]

\* columns[0] or columns[-1] of an empty list
IndexError == [kind |-> "raise", has_sql_query |-> FALSE, sql_query |-> <<>>,
               chart_type |-> "IndexError", x_axis |-> <<>>, y_axis |-> <<>>]

\* variant: an alias replaces the y_axis the decision chose
AsFallback_Always(final, y) ==
    IF SearchAs(final).matched THEN SearchAs(final).group1 ELSE y

\* lines 173-176
AsFallback(final, y) ==
    IF y = <<>> /\ SearchAs(final).matched THEN SearchAs(final).group1 ELSE y

\* lines 146-171: [chart_type, x_axis, y_axis], for a non-empty column
\* list or in the branch that does not index it
Decide(cols, aggs, group_by, has_order_by, has_limit, times) ==
    IF aggs # <<>> /\ group_by.matched
    THEN [chart_type |-> GroupedChartType(aggs, has_order_by, has_limit, times),
          x_axis |-> StripQuote(StripSpace(group_by.group1)),
          y_axis |-> FirstAggregated(cols, aggs, <<>>)]
    ELSE IF aggs # <<>>
    THEN [chart_type |-> "bar",
          x_axis |-> cols[1],
          y_axis |-> FirstAggregated(cols, aggs, cols[Len(cols)])]
    ELSE IF ~group_by.matched
    THEN [chart_type |-> "scatter", x_axis |-> cols[1], y_axis |-> RestJoined(cols)]
    ELSE [chart_type |-> "table", x_axis |-> cols[1], y_axis |-> RestJoined(cols)]

\* the branches of lines 160-171 read columns[0]
IndexesColumns(aggs, group_by) == ~(aggs # <<>> /\ group_by.matched)

\* nothing has been returned or raised yet
NoResult == [kind |-> "none"]

\* no classification is running
SqlIdle ==
    /\ sql_query = <<>>
    /\ sql_pc = "idle"
    /\ sql_final = <<>>
    /\ aggregations = <<>>
    /\ group_by_match = NoMatch
    /\ order_by = FALSE
    /\ limit = FALSE
    /\ time_columns = <<>>
    /\ select_clause = NoMatch
    /\ sql_columns = <<>>
    /\ chart_type = ""
    /\ x_axis = <<>>
    /\ y_axis = <<>>
    /\ sql_result = NoResult
    /\ previous_result = NoResult

----------------------------------------------------------------------------
(* The functions that work on the framework's documents and tables, before *)
(* they are called                                                         *)

ExcelIdle ==
    /\ xl_columns = <<>>
    /\ xl_pc = "idle"
    /\ xl_i = 1
    /\ xl_fields = <<>>
    /\ xl_written = <<>>

\* label_field = None, value_field = None
NoField == [found |-> FALSE, key |-> <<>>]

\* nothing returned or raised yet
NoDataset == [kind |-> "none"]

DynIdle ==
    /\ json_data = <<>>
    /\ dyn_pc = "idle"
    /\ dyn_k = 1
    /\ label_field = NoField
    /\ value_field = NoField
    /\ dyn_result = NoDataset

\* label_field_index = None, value_field_index = None
NoIndex == -1

UpIdle ==
    /\ preview = <<>>
    /\ up_pc = "idle"
    /\ up_caller = ""
    /\ up_calls = 0
    /\ up_row = 1
    /\ tbl_exists = FALSE
    /\ tbl_creations = 0
    /\ tbl_rows = <<>>
    /\ label_field_index = NoIndex
    /\ value_field_index = NoIndex
    /\ up_result = NoDataset

InsIdle ==
    /\ data = <<>>
    /\ ins_pc = "idle"
    /\ ins_row = 1
    /\ ins_inserted = <<>>
    /\ ins_logged = <<>>

ParseIdle ==
    /\ parse_pc = "idle"
    /\ parse_result = NoDataset

HostIdle == ExcelIdle /\ DynIdle /\ UpIdle /\ InsIdle /\ ParseIdle

----------------------------------------------------------------------------
(* Column labels the uploads are run on                                    *)

Repeat(c, n) == [k \in 1..n |-> c]

L_Total   == <<"T","o","t","a","l">>
L_total   == <<"t","o","t","a","l">>
L_total_1 == <<"t","o","t","a","l","_","1">>
L_empty   == <<>>
L_punct   == <<"_","-"," ","%","_">>
L_2nd     == <<"2","n","d"," ","Q","u","a","r","t","e","r"," ","S","a","l","e","s">>
L_name    == <<"n","a","m","e">>
L_field_1 == <<"f","i","e","l","d","_","1">>
L_cafe    == <<"C","a","f","U+00C9">>
L_arabic  == <<"U+0662","n","d">>
\* two labels longer than 140 characters that differ only after the cut
L_longA   == Repeat("x", MaxFieldLen - 1) \o <<"-","b">>
L_longB   == Repeat("x", MaxFieldLen - 1) \o <<"-","c">>

Labels == {L_Total, L_total, L_total_1, L_empty, L_punct, L_2nd, L_name,
           L_field_1, L_cafe, L_arabic, L_longA, L_longB}

\* the longest batch of columns one upload carries
MaxCols == 3

Batches == UNION {[1..n -> Labels] : n \in 0..MaxCols}

\* the uploads that run side by side: labels that collide after
\* normalisation and one that gets the placeholder
ConcurrentLabels == {L_Total, L_total, L_empty}
MaxConcurrentCols == 2
ConcurrentBatches ==
    UNION {[1..n -> ConcurrentLabels] : n \in 0..MaxConcurrentCols}

----------------------------------------------------------------------------
(* utils.py create_dynamic_doctype as a state machine; c is one call       *)

Calls == DOMAIN pc

NoDoc == [created |-> FALSE, fields |-> <<>>]

\* the calls cs start, each on one of the batches
InitCalls(cs, batches) ==
    /\ columns \in [cs -> batches]
    /\ pc = [c \in cs |-> "exists"]
    /\ col_i = [c \in cs |-> 1]
    /\ fields = [c \in cs |-> <<>>]
    /\ used_fieldnames = [c \in cs |-> {}]
    /\ col_str = [c \in cs |-> <<>>]
    /\ sanitized_fieldname = [c \in cs |-> <<>>]
    /\ original_fieldname = [c \in cs |-> <<>>]
    /\ counter = [c \in cs |-> 1]
    /\ doctype = [c \in cs |-> NoDoc]

InitCall(cs) == InitCalls(cs, Batches)

SanIdle == InitCall({})

Init == InitCall({1}) /\ JsonIdle /\ SqlIdle /\ HostIdle

\* line 129: the random doctype name is already taken; nothing is built
DoctypeExists(c) ==
    /\ UNCHANGED <<jsonVars, sqlVars, hostVars>>
    /\ pc[c] = "exists"
    /\ pc' = [pc EXCEPT ![c] = "done"]
    /\ UNCHANGED <<columns, col_i, fields, used_fieldnames, col_str,
                   sanitized_fieldname, original_fieldname, counter, doctype>>

\* lines 129-132
BeginFields(c) ==
    /\ UNCHANGED <<jsonVars, sqlVars, hostVars>>
    /\ pc[c] = "exists"
    /\ fields' = [fields EXCEPT ![c] = <<>>]
    /\ used_fieldnames' = [used_fieldnames EXCEPT ![c] = {}]
    /\ pc' = [pc EXCEPT ![c] = "for"]
    /\ UNCHANGED <<columns, col_i, col_str, sanitized_fieldname,
                   original_fieldname, counter, doctype>>

\* lines 134-151: the next column, up to the head of the while loop
ForColumn(c) ==
    /\ UNCHANGED <<jsonVars, sqlVars, hostVars>>
    /\ pc[c] = "for"
    /\ col_i[c] <= Len(columns[c])
    /\ \E cs \in {Truncate(columns[c][col_i[c]])} :
       \E cand \in {Candidate(cs, fields[c])} :
           /\ col_str' = [col_str EXCEPT ![c] = cs]
           /\ sanitized_fieldname' = [sanitized_fieldname EXCEPT ![c] = cand]
           /\ original_fieldname' = [original_fieldname EXCEPT ![c] = cand]
    /\ counter' = [counter EXCEPT ![c] = 1]
    /\ pc' = [pc EXCEPT ![c] = "while"]
    /\ UNCHANGED <<columns, col_i, fields, used_fieldnames, doctype>>

\* variant: a turn of the loop tries the same name again
WhileUsed_SameName(c) ==
    /\ pc[c] = "while"
    /\ InUsed(sanitized_fieldname[c], used_fieldnames[c])
    /\ UNCHANGED vars

\* lines 152-154: one turn of the uniqueness loop
WhileUsed(c) ==
    /\ UNCHANGED <<jsonVars, sqlVars, hostVars>>
    /\ pc[c] = "while"
    /\ InUsed(sanitized_fieldname[c], used_fieldnames[c])
    /\ sanitized_fieldname' = [sanitized_fieldname EXCEPT ![c] =
                                  Suffixed(original_fieldname[c], counter[c])]
    /\ counter' = [counter EXCEPT ![c] = @ + 1]
    /\ UNCHANGED <<columns, pc, col_i, fields, used_fieldnames, col_str,
                   original_fieldname, doctype>>

\* variant: the name is added to one set that every call reads
AppendField_SharedSet(c) ==
    /\ UNCHANGED <<jsonVars, sqlVars, hostVars>>
    /\ pc[c] = "while"
    /\ ~InUsed(sanitized_fieldname[c], used_fieldnames[c])
    /\ used_fieldnames' = [d \in Calls |->
                              AddUsed(used_fieldnames[d], sanitized_fieldname[c])]
    /\ fields' = [fields EXCEPT ![c] =
                     Append(@, Field(sanitized_fieldname[c], col_str[c]))]
    /\ col_i' = [col_i EXCEPT ![c] = @ + 1]
    /\ pc' = [pc EXCEPT ![c] = "for"]
    /\ UNCHANGED <<columns, col_str, sanitized_fieldname, original_fieldname,
                   counter, doctype>>

\* lines 152, 156-162: the loop ends, the field is recorded
AppendField(c) ==
    /\ UNCHANGED <<jsonVars, sqlVars, hostVars>>
    /\ pc[c] = "while"
    /\ ~InUsed(sanitized_fieldname[c], used_fieldnames[c])
    /\ used_fieldnames' = [used_fieldnames EXCEPT ![c] =
                              AddUsed(@, sanitized_fieldname[c])]
    /\ fields' = [fields EXCEPT ![c] =
                     Append(@, Field(sanitized_fieldname[c], col_str[c]))]
    /\ col_i' = [col_i EXCEPT ![c] = @ + 1]
    /\ pc' = [pc EXCEPT ![c] = "for"]
    /\ UNCHANGED <<columns, col_str, sanitized_fieldname, original_fieldname,
                   counter, doctype>>

\* lines 164-175, 180: the columns are exhausted, the doctype is inserted
InsertDoctype(c) ==
    /\ UNCHANGED <<jsonVars, sqlVars, hostVars>>
    /\ pc[c] = "for"
    /\ col_i[c] > Len(columns[c])
    /\ doctype' = [doctype EXCEPT ![c] = [created |-> TRUE, fields |-> fields[c]]]
    /\ pc' = [pc EXCEPT ![c] = "done"]
    /\ UNCHANGED <<columns, col_i, fields, used_fieldnames, col_str,
                   sanitized_fieldname, original_fieldname, counter>>

\* lines 174-178: doc.insert() raises, frappe.throw re-raises
InsertThrows(c) ==
    /\ UNCHANGED <<jsonVars, sqlVars, hostVars>>
    /\ pc[c] = "for"
    /\ col_i[c] > Len(columns[c])
    /\ pc' = [pc EXCEPT ![c] = "thrown"]
    /\ UNCHANGED <<columns, col_i, fields, used_fieldnames, col_str,
                   sanitized_fieldname, original_fieldname, counter, doctype>>

Next ==
    \/ \E c \in Calls : DoctypeExists(c)
    \/ \E c \in Calls : BeginFields(c)
    \/ \E c \in Calls : ForColumn(c)
    \/ \E c \in Calls : WhileUsed(c)
    \/ \E c \in Calls : AppendField(c)
    \/ \E c \in Calls : InsertDoctype(c)
    \/ \E c \in Calls : InsertThrows(c)

Spec == Init /\ [][Next]_vars

\* one call runs in one thread, which takes its next step whenever it has one
FairSpec == Init /\ [][Next]_vars /\ WF_vars(Next)

\* two uploads at once, each in its own call of create_dynamic_doctype; the
\* steps of the two calls interleave in any order
InitConcurrent ==
    InitCalls({1, 2}, ConcurrentBatches) /\ JsonIdle /\ SqlIdle /\ HostIdle

SpecConcurrent == InitConcurrent /\ [][Next]_vars

----------------------------------------------------------------------------
(* json_data.py determine_columns as a state machine                       *)

\* lines 68-84: one key of the first record
DetermineColumn ==
    /\ json_pc = "for"
    /\ json_i <= Len(first_row)
    /\ LET key == first_row[json_i].key
           value == first_row[json_i].value
           name == sanitize_fieldname(key)
       IN  /\ fieldname' = name
           /\ json_columns' = DictSet(json_columns, name, FieldTypeOf(value))
           /\ child_tables' =
                 IF value = "list"
                 THEN DictSet(child_tables, name, name \o <<"_","c","h","i","l","d">>)
                 ELSE child_tables
    /\ json_i' = json_i + 1
    /\ UNCHANGED <<first_row, json_pc, sanVars, sqlVars, hostVars>>

\* line 86
DetermineReturn ==
    /\ json_pc = "for"
    /\ json_i > Len(first_row)
    /\ json_pc' = "returned"
    /\ UNCHANGED <<first_row, json_i, fieldname, json_columns, child_tables,
                   sanVars, sqlVars, hostVars>>

NextJson == DetermineColumn \/ DetermineReturn

InitJson == SanIdle /\ JsonInit /\ SqlIdle /\ HostIdle

SpecJson == InitJson /\ [][NextJson]_vars

----------------------------------------------------------------------------
(* Texts the classifier is run on: a statement put together from its       *)
(* clauses, any of which may be missing, as the model's answer wraps it    *)

QKeyword == {<<"S","E","L","E","C","T">>, <<"s","e","l","e","c","t">>, <<>>}

QProjection == {
    <<>>,
    <<"n","a","m","e">>,
    <<"n","a","m","e",","," ","p","r","i","c","e">>,
    <<"p","r","i","c","e"," ","A","S"," ","p",","," ","q","t","y">>,
    <<"r","e","g","i","o","n",","," ","S","U","M","(","s","a","l","e","s",")"," ","A","S"," ","t","o","t","a","l">>,
    <<"r","e","g","i","o","n",","," ","s","u","m","(","s","a","l","e","s",")"," ","A","S"," ","t","o","t","a","l">>,
    <<"m","o","n","t","h",","," ","A","V","G","(","p","r","i","c","e",")"," ","A","S"," ","a","v","g","_","p","r","i","c","e">>,
    <<"C","O","U","N","T","(","*",")">>,
    <<"d","a","y",","," ","s","u","m","(","a",")",","," ","m","a","x","(","b",")"," ","A","S"," ","m">>,
    <<"d","i","s","c","o","u","n","t",","," ","C","O","U","N","T","(","*",")"," ","A","S"," ","n",","," ","M","I","N","(","b",")">>,
    <<"d","i","s","c","o","u","n","t",","," ","c","o","u","n","t","(","*",")"," ","A","S"," ","n",","," ","m","i","n","(","b",")">> }

QFrom == {<<"F","R","O","M"," ","t">>, <<"f","r","o","m"," ","t">>, <<>>}

QTail == {
    <<>>,
    <<"G","R","O","U","P"," ","B","Y"," ","r","e","g","i","o","n">>,
    <<"g","r","o","u","p"," ","b","y"," ","m","o","n","t","h">>,
    <<"G","R","O","U","P"," ","B","Y"," ","M","o","n","t","h">>,
    <<"G","R","O","U","P"," ","B","Y"," ","r","e","g","i","o","n"," ","O","R","D","E","R"," ","B","Y"," ","t","o","t","a","l"," ","D","E","S","C"," ","L","I","M","I","T"," ","5">>,
    <<"W","H","E","R","E"," ","i","d"," ","I","N"," ","(","S","E","L","E","C","T"," ","i","d"," ","F","R","O","M"," ","u",")">> }

\* how the statement is wrapped: [before, between the clauses, after]
QWrap == {
    [before |-> <<>>, between |-> <<" ">>, after |-> <<>>],
    [before |-> <<>>, between |-> <<" ">>, after |-> <<";">>],
    [before |-> <<"H","e","r","e"," ","i","s"," ","t","h","e"," ","q","u","e","r","y",":","\n">>, between |-> <<"\n", " ", " ">>,
     after |-> <<";","\n","-","-"," ","d","o","n","e">>],
    [before |-> <<"U+0130","U+015F","t","e"," ","s","o","r","g","u",":"," ">>, between |-> <<" ">>,
     after |-> <<";">>] }

\* the non-empty clauses, joined
RECURSIVE JoinWith(_, _)
JoinWith(sep, parts) ==
    IF parts = <<>> THEN <<>>
    ELSE IF Len(parts) = 1 THEN parts[1]
    ELSE parts[1] \o sep \o JoinWith(sep, Tail(parts))

Statement(kw, proj, from, tail, wrap) ==
    wrap.before
    \o JoinWith(wrap.between, SelectSeq(<<kw, proj, from, tail>>, LAMBDA x : x # <<>>))
    \o wrap.after

Queries ==
    {Statement(kw, proj, from, tail, wrap) :
        kw \in QKeyword, proj \in QProjection, from \in QFrom, tail \in QTail,
        wrap \in QWrap}

----------------------------------------------------------------------------
(* chartapi.py analyze_sql_query as a state machine                        *)

SqlInit ==
    /\ sql_query \in Queries
    /\ sql_pc = "call"
    /\ sql_final = <<>>
    /\ aggregations = <<>>
    /\ group_by_match = NoMatch
    /\ order_by = FALSE
    /\ limit = FALSE
    /\ time_columns = <<>>
    /\ select_clause = NoMatch
    /\ sql_columns = <<>>
    /\ chart_type = ""
    /\ x_axis = <<>>
    /\ y_axis = <<>>
    /\ sql_result = NoResult
    /\ previous_result = NoResult

\* line 131
RefineQuery ==
    /\ sql_pc = "call"
    /\ sql_final' = refine_sql_query(sql_query)
    /\ sql_pc' = "refined"
    /\ UNCHANGED <<sql_query, aggregations, group_by_match, order_by, limit,
                   time_columns, select_clause, sql_columns, chart_type, x_axis,
                   y_axis, sql_result, previous_result>>
    /\ UNCHANGED <<sanVars, jsonVars, hostVars>>

\* lines 133-138
SearchPatterns ==
    /\ sql_pc = "refined"
    /\ aggregations' = FindAggregations(sql_final)
    /\ group_by_match' = SearchGroupBy(sql_final)
    /\ order_by' = SearchOrderBy(sql_final)
    /\ limit' = SearchLimit(sql_final)
    /\ time_columns' = FindTimeColumns(sql_final)
    /\ select_clause' = SearchSelect(sql_final)
    /\ sql_pc' = "searched"
    /\ UNCHANGED <<sql_query, sql_final, sql_columns, chart_type, x_axis, y_axis,
                   sql_result, previous_result>>
    /\ UNCHANGED <<sanVars, jsonVars, hostVars>>

\* lines 140-141
ReturnDegenerate ==
    /\ sql_pc = "searched"
    /\ ~select_clause.matched
    /\ sql_result' = Degenerate
    /\ sql_pc' = "done"
    /\ UNCHANGED <<sql_query, sql_final, aggregations, group_by_match, order_by,
                   limit, time_columns, select_clause, sql_columns, chart_type,
                   x_axis, y_axis, previous_result>>
    /\ UNCHANGED <<sanVars, jsonVars, hostVars>>

\* lines 143-144, then columns[0] of line 162, 166 or 170 on an empty list
RaiseIndexError ==
    /\ sql_pc = "searched"
    /\ select_clause.matched
    /\ LET cols == FindColumns(select_clause.group1)
       IN  /\ cols = <<>>
           /\ IndexesColumns(aggregations, group_by_match)
           /\ sql_columns' = cols
    /\ sql_result' = IndexError
    /\ sql_pc' = "done"
    /\ UNCHANGED <<sql_query, sql_final, aggregations, group_by_match, order_by,
                   limit, time_columns, select_clause, chart_type, x_axis, y_axis,
                   previous_result>>
    /\ UNCHANGED <<sanVars, jsonVars, hostVars>>

\* lines 143-171: the columns and the branch of the decision
DecideAxes ==
    /\ sql_pc = "searched"
    /\ select_clause.matched
    /\ LET cols == FindColumns(select_clause.group1)
       IN  /\ ~(cols = <<>> /\ IndexesColumns(aggregations, group_by_match))
           /\ sql_columns' = cols
           /\ LET d == Decide(cols, aggregations, group_by_match, order_by, limit,
                              time_columns)
              IN  /\ chart_type' = d.chart_type
                  /\ x_axis' = d.x_axis
                  /\ y_axis' = d.y_axis
    /\ sql_pc' = "decided"
    /\ UNCHANGED <<sql_query, sql_final, aggregations, group_by_match, order_by,
                   limit, time_columns, select_clause, sql_result, previous_result>>
    /\ UNCHANGED <<sanVars, jsonVars, hostVars>>

\* lines 173-183: the alias fallback and the return
ReturnSuggestion ==
    /\ sql_pc = "decided"
    /\ y_axis' = AsFallback(sql_final, y_axis)
    /\ sql_result' = Suggestion(sql_final, chart_type, x_axis, y_axis')
    /\ sql_pc' = "done"
    /\ UNCHANGED <<sql_query, sql_final, aggregations, group_by_match, order_by,
                   limit, time_columns, select_clause, sql_columns, chart_type,
                   x_axis, previous_result>>
    /\ UNCHANGED <<sanVars, jsonVars, hostVars>>

\* line 130 again: the caller hands the sql_query field of the suggestion it
\* got back to analyze_sql_query
Reanalyze ==
    /\ sql_pc = "done"
    /\ sql_result.kind = "return"
    /\ sql_result.has_sql_query
    /\ previous_result = NoResult
    /\ previous_result' = sql_result
    /\ sql_query' = sql_result.sql_query
    /\ sql_pc' = "call"
    /\ sql_final' = <<>>
    /\ aggregations' = <<>>
    /\ group_by_match' = NoMatch
    /\ order_by' = FALSE
    /\ limit' = FALSE
    /\ time_columns' = <<>>
    /\ select_clause' = NoMatch
    /\ sql_columns' = <<>>
    /\ chart_type' = ""
    /\ x_axis' = <<>>
    /\ y_axis' = <<>>
    /\ sql_result' = NoResult
    /\ UNCHANGED <<sanVars, jsonVars, hostVars>>

NextSql ==
    \/ RefineQuery
    \/ SearchPatterns
    \/ ReturnDegenerate
    \/ RaiseIndexError
    \/ DecideAxes
    \/ ReturnSuggestion
    \/ Reanalyze

InitSql == SanIdle /\ JsonIdle /\ SqlInit /\ HostIdle

SpecSql == InitSql /\ [][NextSql]_vars

----------------------------------------------------------------------------
(* excel_process.py: create_dynamic_doctype and insert_data_into_doctype   *)
(* of the Excel path, run one after the other on the columns of one sheet  *)

\* lines 62-66: the fieldname of a column; the same normalisation as in
\* utils.py, with no cut, no placeholder and no uniqueness loop
ExcelFieldname(col) ==
    CHOOSE name \in {DigitPrefix(normal) : normal \in {Normalize(col)}} : TRUE

\* line 108: the attribute a cell is set on
ExcelCellField(field) == ReplaceSpaces(Lower(field))

L_UnitPrice  == <<"U","n","i","t"," ","P","r","i","c","e">>
L_Unit_Price == <<"U","n","i","t","-","P","r","i","c","e">>
L_region     == <<"r","e","g","i","o","n">>

ExcelLabels == {L_Total, L_region, L_UnitPrice, L_Unit_Price, L_2nd, L_punct}

\* the widest sheet
MaxExcelCols == 2

ExcelSheets == UNION {[1..n -> ExcelLabels] : n \in 1..MaxExcelCols}

ExcelInit ==
    /\ xl_columns \in ExcelSheets
    /\ xl_pc = "exists"
    /\ xl_i = 1
    /\ xl_fields = <<>>
    /\ xl_written = <<>>

\* line 59: the random doctype name is taken; the rows go to the doctype
\* that has it
ExcelDoctypeExists ==
    /\ xl_pc = "exists"
    /\ xl_pc' = "insert_existing"
    /\ UNCHANGED <<xl_columns, xl_i, xl_fields, xl_written>>
    /\ UNCHANGED <<sanVars, jsonVars, sqlVars, dynVars, upVars, insVars, parseVars>>

\* lines 59-60
ExcelBeginFields ==
    /\ xl_pc = "exists"
    /\ xl_pc' = "create"
    /\ xl_fields' = <<>>
    /\ UNCHANGED <<xl_columns, xl_i, xl_written>>
    /\ UNCHANGED <<sanVars, jsonVars, sqlVars, dynVars, upVars, insVars, parseVars>>

\* lines 61-73: one column; an empty fieldname gives no field
ExcelField ==
    /\ xl_pc = "create"
    /\ xl_i <= Len(xl_columns)
    /\ \E name \in {ExcelFieldname(xl_columns[xl_i])} :
          xl_fields' = IF name # <<>>
                       THEN Append(xl_fields, Field(name, xl_columns[xl_i]))
                       ELSE xl_fields
    /\ xl_i' = xl_i + 1
    /\ UNCHANGED <<xl_columns, xl_pc, xl_written>>
    /\ UNCHANGED <<sanVars, jsonVars, sqlVars, dynVars, upVars, insVars, parseVars>>

\* lines 75-86: the doctype is inserted and its name returned
ExcelInsertDoctype ==
    /\ xl_pc = "create"
    /\ xl_i > Len(xl_columns)
    /\ xl_pc' = "insert"
    /\ xl_i' = 1
    /\ UNCHANGED <<xl_columns, xl_fields, xl_written>>
    /\ UNCHANGED <<sanVars, jsonVars, sqlVars, dynVars, upVars, insVars, parseVars>>

\* line 84: doc.insert() raises
ExcelInsertThrows ==
    /\ xl_pc = "create"
    /\ xl_i > Len(xl_columns)
    /\ xl_pc' = "thrown"
    /\ UNCHANGED <<xl_columns, xl_i, xl_fields, xl_written>>
    /\ UNCHANGED <<sanVars, jsonVars, sqlVars, dynVars, upVars, insVars, parseVars>>

\* lines 103-108: one cell of a row; the keys of a row are the columns
ExcelSetCell ==
    /\ xl_pc \in {"insert", "insert_existing"}
    /\ xl_i <= Len(xl_columns)
    /\ xl_written' = Append(xl_written, ExcelCellField(xl_columns[xl_i]))
    /\ xl_i' = xl_i + 1
    /\ UNCHANGED <<xl_columns, xl_pc, xl_fields>>
    /\ UNCHANGED <<sanVars, jsonVars, sqlVars, dynVars, upVars, insVars, parseVars>>

\* line 110
ExcelInsertRow ==
    /\ xl_pc \in {"insert", "insert_existing"}
    /\ xl_i > Len(xl_columns)
    /\ xl_pc' = IF xl_pc = "insert" THEN "done" ELSE "done_existing"
    /\ UNCHANGED <<xl_columns, xl_i, xl_fields, xl_written>>
    /\ UNCHANGED <<sanVars, jsonVars, sqlVars, dynVars, upVars, insVars, parseVars>>

NextExcel ==
    \/ ExcelDoctypeExists
    \/ ExcelBeginFields
    \/ ExcelField
    \/ ExcelInsertDoctype
    \/ ExcelInsertThrows
    \/ ExcelSetCell
    \/ ExcelInsertRow

InitExcel ==
    /\ SanIdle /\ JsonIdle /\ SqlIdle
    /\ ExcelInit /\ DynIdle /\ UpIdle /\ InsIdle /\ ParseIdle

SpecExcel == InitExcel /\ [][NextExcel]_vars

----------------------------------------------------------------------------
(* utils.py insert_data_into_doctype of the file-upload path.  A row of    *)
(* the data is known by its position; what the model keeps of it is where, *)
(* if anywhere, handling it raises: while the document is built (get_doc,  *)
(* the conversion of a cell, doc.set) or in doc.insert().                  *)

RowFaults == {"none", "build", "insert"}

\* the longest upload
MaxRows == 3

Uploads == UNION {[1..n -> RowFaults] : n \in 0..MaxRows}

InsInit ==
    /\ data \in Uploads
    /\ ins_pc = "call"
    /\ ins_row = 1
    /\ ins_inserted = <<>>
    /\ ins_logged = <<>>

\* lines 186-187: the fields of the doctype that the caller has just created
InsReadMeta ==
    /\ ins_pc = "call"
    /\ ins_pc' = "loop"
    /\ UNCHANGED <<data, ins_row, ins_inserted, ins_logged>>
    /\ UNCHANGED <<sanVars, jsonVars, sqlVars, excelVars, dynVars, upVars, parseVars>>

\* lines 189-213: the row is built and inserted
InsInsertRow ==
    /\ ins_pc = "loop"
    /\ ins_row <= Len(data)
    /\ data[ins_row] = "none"
    /\ ins_inserted' = Append(ins_inserted, ins_row)
    /\ ins_row' = ins_row + 1
    /\ UNCHANGED <<data, ins_pc, ins_logged>>
    /\ UNCHANGED <<sanVars, jsonVars, sqlVars, excelVars, dynVars, upVars, parseVars>>

\* variant: what a row raises leaves the function
InsRowRaises_Propagates ==
    /\ ins_pc = "loop"
    /\ ins_row <= Len(data)
    /\ data[ins_row] \in {"build", "insert"}
    /\ ins_pc' = "raised"
    /\ UNCHANGED <<data, ins_row, ins_inserted, ins_logged>>
    /\ UNCHANGED <<sanVars, jsonVars, sqlVars, excelVars, dynVars, upVars, parseVars>>

\* lines 190-217: building the row or inserting it raises; the handler logs
\* the error and the loop goes on with the next row
InsRowRaises ==
    /\ ins_pc = "loop"
    /\ ins_row <= Len(data)
    /\ data[ins_row] \in {"build", "insert"}
    /\ ins_logged' = Append(ins_logged, ins_row)
    /\ ins_row' = ins_row + 1
    /\ UNCHANGED <<data, ins_pc, ins_inserted>>
    /\ UNCHANGED <<sanVars, jsonVars, sqlVars, excelVars, dynVars, upVars, parseVars>>

\* line 189: the rows are exhausted, the function returns
InsReturn ==
    /\ ins_pc = "loop"
    /\ ins_row > Len(data)
    /\ ins_pc' = "returned"
    /\ UNCHANGED <<data, ins_row, ins_inserted, ins_logged>>
    /\ UNCHANGED <<sanVars, jsonVars, sqlVars, excelVars, dynVars, upVars, parseVars>>

NextIns ==
    \/ InsReadMeta
    \/ InsInsertRow
    \/ InsRowRaises
    \/ InsReturn

InitIns ==
    /\ SanIdle /\ JsonIdle /\ SqlIdle
    /\ ExcelIdle /\ DynIdle /\ UpIdle /\ InsInit /\ ParseIdle

SpecIns == InitIns /\ [][NextIns]_vars

----------------------------------------------------------------------------
(* json_data.py convert_dynamic_json_to_chart_dataset.  A record is the    *)
(* sequence of its [key, value] pairs in dict order.  A value is known by  *)
(* what the isinstance tests and float() make of it: "str" is a text that  *)
(* is no number, "digits" a text that float() reads, "int", "float" and    *)
(* "bool" are numbers, "None" is null and "list" a nested list.            *)

\* isinstance(value, (str, int, float)); bool is a subclass of int
IsStrIntFloat(value) == value \in {"str", "digits", "int", "float", "bool"}

\* isinstance(value, (int, float))
IsIntFloat(value) == value \in {"int", "float", "bool"}

\* float(value) returns; for the other values it raises
FloatReturns(value) == value \in {"int", "float", "bool", "digits"}

\* lines 421-424
excluded_fields == {
    <<"n","a","m","e">>, <<"c","r","e","a","t","i","o","n">>, <<"m","o","d","i","f","i","e","d">>, <<"m","o","d","i","f","i","e","d","_","b","y">>, <<"o","w","n","e","r">>,
    <<"d","o","c","s","t","a","t","u","s">>, <<"i","d","x">> }

\* line 433: key in excluded_fields or key.startswith("_")
Skipped(key) == key \in excluded_fields \/ (key # <<>> /\ key[1] = "_")

\* the truth value of label_field and of value_field (lines 444, 452):
\* None and the empty key are false
Truthy(field) == field.found /\ field.key # <<>>

\* item.get(key, default)
DictGet(item, key, default) ==
    IF \E p \in 1..Len(item) : item[p].key = key
    THEN item[CHOOSE p \in 1..Len(item) : item[p].key = key].value
    ELSE default

\* lines 418, 454
EmptyDataset == [kind |-> "return", labels |-> <<>>, datasets |-> <<>>]

Pair(k, v) == [key |-> k, value |-> v]

\* the first record of a result set of frappe.db.get_all: two fields the
\* framework adds, then the columns of the table; a column holds a text, a
\* number or NULL
FirstRecords ==
    {<<Pair(<<"n", "a", "m", "e">>, "str"), Pair(<<"_", "s", "e", "e", "n">>, "int"),
       Pair(<<"c", "i", "t", "y">>, c), Pair(<<"p", "o", "p">>, p),
       Pair(<<"a", "r", "e", "a">>, a)>> :
        c \in {"str", "int", "None"}, p \in {"int", "str", "None"},
        a \in {"float", "None"}}

\* a later record has the keys of the first; each of its columns holds a
\* value of the column's type or NULL
LaterRecords(first) ==
    {[p \in 1..Len(first) |->
         IF p \in nulls THEN Pair(first[p].key, "None") ELSE first[p]] :
        nulls \in SUBSET (3..Len(first))}

ResultSets ==
    {<<>>} \cup {<<f>> : f \in FirstRecords}
    \cup UNION {{<<f, l>> : l \in LaterRecords(f)} : f \in FirstRecords}

DynInit ==
    /\ json_data \in ResultSets
    /\ dyn_pc = "call"
    /\ dyn_k = 1
    /\ label_field = NoField
    /\ value_field = NoField
    /\ dyn_result = NoDataset

\* lines 416-418
DynReturnInvalid ==
    /\ dyn_pc = "call"
    /\ json_data = <<>>
    /\ dyn_result' = EmptyDataset
    /\ dyn_pc' = "done"
    /\ UNCHANGED <<json_data, dyn_k, label_field, value_field>>
    /\ UNCHANGED <<sanVars, jsonVars, sqlVars, excelVars, upVars, insVars, parseVars>>

\* lines 427-429
DynTakeSample ==
    /\ dyn_pc = "call"
    /\ json_data # <<>>
    /\ label_field' = NoField
    /\ value_field' = NoField
    /\ dyn_k' = 1
    /\ dyn_pc' = "for"
    /\ UNCHANGED <<json_data, dyn_result>>
    /\ UNCHANGED <<sanVars, jsonVars, sqlVars, excelVars, upVars, insVars, parseVars>>

\* lines 431-446: one item of the sample
DynExamineItem ==
    /\ dyn_pc = "for"
    /\ dyn_k <= Len(json_data[1])
    /\ LET key == json_data[1][dyn_k].key
           value == json_data[1][dyn_k].value
           TakeLabel == ~label_field.found /\ IsStrIntFloat(value)
           TakeValue == ~TakeLabel /\ ~value_field.found /\ IsIntFloat(value)
       IN  IF Skipped(key)
           THEN /\ dyn_k' = dyn_k + 1
                /\ UNCHANGED <<label_field, value_field, dyn_pc>>
           ELSE /\ label_field' = IF TakeLabel THEN [found |-> TRUE, key |-> key]
                                  ELSE label_field
                /\ value_field' = IF TakeValue THEN [found |-> TRUE, key |-> key]
                                  ELSE value_field
                /\ IF Truthy(label_field') /\ Truthy(value_field')
                   THEN dyn_pc' = "picked" /\ UNCHANGED dyn_k
                   ELSE dyn_k' = dyn_k + 1 /\ UNCHANGED dyn_pc
    /\ UNCHANGED <<json_data, dyn_result>>
    /\ UNCHANGED <<sanVars, jsonVars, sqlVars, excelVars, upVars, insVars, parseVars>>

\* line 431: the sample has no more items
DynSampleEnds ==
    /\ dyn_pc = "for"
    /\ dyn_k > Len(json_data[1])
    /\ dyn_pc' = "picked"
    /\ UNCHANGED <<json_data, dyn_k, label_field, value_field, dyn_result>>
    /\ UNCHANGED <<sanVars, jsonVars, sqlVars, excelVars, upVars, insVars, parseVars>>

\* lines 452-454
DynReturnNoFields ==
    /\ dyn_pc = "picked"
    /\ ~Truthy(label_field) \/ ~Truthy(value_field)
    /\ dyn_result' = EmptyDataset
    /\ dyn_pc' = "done"
    /\ UNCHANGED <<json_data, dyn_k, label_field, value_field>>
    /\ UNCHANGED <<sanVars, jsonVars, sqlVars, excelVars, upVars, insVars, parseVars>>

\* lines 457-475: every float() returns
DynReturnDataset ==
    /\ dyn_pc = "picked"
    /\ Truthy(label_field) /\ Truthy(value_field)
    /\ \A r \in 1..Len(json_data) :
          FloatReturns(DictGet(json_data[r], value_field.key, "int"))
    /\ dyn_result' =
          [kind |-> "return",
           labels |-> [r \in 1..Len(json_data) |->
                          DictGet(json_data[r], label_field.key, "str")],
           datasets |-> <<[name |-> value_field.key,
                           values |-> [r \in 1..Len(json_data) |->
                                          DictGet(json_data[r], value_field.key, "int")]]>>]
    /\ dyn_pc' = "done"
    /\ UNCHANGED <<json_data, dyn_k, label_field, value_field>>
    /\ UNCHANGED <<sanVars, jsonVars, sqlVars, excelVars, upVars, insVars, parseVars>>

\* line 458: float() of the value of some record raises TypeError (None, a
\* list) or ValueError (a text that is no number)
DynRaise ==
    /\ dyn_pc = "picked"
    /\ Truthy(label_field) /\ Truthy(value_field)
    /\ \E r \in 1..Len(json_data) :
          ~FloatReturns(DictGet(json_data[r], value_field.key, "int"))
    /\ LET r == MinOf({k \in 1..Len(json_data) :
                         ~FloatReturns(DictGet(json_data[k], value_field.key, "int"))})
       IN  dyn_result' =
              [kind |-> "raise",
               error |-> IF DictGet(json_data[r], value_field.key, "int") = "str"
                         THEN "ValueError" ELSE "TypeError"]
    /\ dyn_pc' = "done"
    /\ UNCHANGED <<json_data, dyn_k, label_field, value_field>>
    /\ UNCHANGED <<sanVars, jsonVars, sqlVars, excelVars, upVars, insVars, parseVars>>

NextDyn ==
    \/ DynReturnInvalid
    \/ DynTakeSample
    \/ DynExamineItem
    \/ DynSampleEnds
    \/ DynReturnNoFields
    \/ DynReturnDataset
    \/ DynRaise

InitDyn ==
    /\ SanIdle /\ JsonIdle /\ SqlIdle
    /\ ExcelIdle /\ DynInit /\ UpIdle /\ InsIdle /\ ParseIdle

SpecDyn == InitDyn /\ [][NextDyn]_vars

----------------------------------------------------------------------------
(* json_data.py create_table_from_insights_data and                        *)
(* convert_uploaded_data_to_chart_dataset.  preview is the list under the  *)
(* key "data" of get_table_preview: the header row, then the data rows.   *)
(* A cell is known by what the type tests and float() make of it: "str"   *)
(* is a text that is no number, "decimal" a text such as 1.5 that float() *)
(* reads but isdigit() rejects, "digits" a text of digits, "int" a number *)
(* and "None" an empty cell.  Indices are those of Python, from 0.        *)

CellKinds == {"str", "decimal", "digits", "int", "None"}

\* isinstance(value, str) and not value.isdigit()
LooksLikeLabel(value) == value \in {"str", "decimal"}

\* isinstance(value, (int, float)) or (isinstance(value, str) and value.isdigit())
LooksLikeNumber(value) == value \in {"int", "digits"}

\* float(value) returns
CellFloatReturns(value) == value \in {"int", "digits", "decimal"}

HeaderNames == <<"city", "pop", "area", "year">>

MaxPreviewCols == 3

MaxCalls == 2

\* previews of 1..MaxPreviewCols columns: the header row alone, with one
\* data row, or with a second data row of the same width
Previews ==
    {<<>>}
    \cup UNION {
        LET headers == [i \in 1..w |-> HeaderNames[i]]
        IN  {<<headers>>}
            \cup {<<headers, row>> : row \in [1..w -> CellKinds]}
            \cup {<<headers, row, [i \in 1..w |-> "str"]>> : row \in [1..w -> CellKinds]}
            \cup {<<headers, row, row>> : row \in [1..w -> CellKinds]}
        : w \in 1..MaxPreviewCols}

\* lines 345-359: the loop over the headers from index i on, with its break
RECURSIVE FirstGuess(_, _, _, _, _)
FirstGuess(headers, row, i, label, value) ==
    IF i >= Len(headers) THEN [label |-> label, value |-> value]
    ELSE LET cell == row[i + 1]
             label1 == IF label = NoIndex /\ LooksLikeLabel(cell) THEN i ELSE label
             value1 == IF value = NoIndex /\ LooksLikeNumber(cell) THEN i ELSE value
         IN  IF label1 # NoIndex /\ value1 # NoIndex
             THEN [label |-> label1, value |-> value1]
             ELSE FirstGuess(headers, row, i + 1, label1, value1)

\* lines 366-373: the first column that float() reads and that is not the
\* label column, NoIndex when there is none
FirstFloatColumn(headers, row, label) ==
    LET hits == {i \in 0..(Len(headers) - 1) :
                    i # label /\ i < Len(row) /\ CellFloatReturns(row[i + 1])}
    IN  IF hits = {} THEN NoIndex ELSE MinOf(hits)

\* lines 376-379
NextAvailable(headers, label) ==
    LET next == IF label # 1 THEN 1 ELSE 2
    IN  IF next >= Len(headers) THEN (IF label # 0 THEN 0 ELSE 1) ELSE next

\* lines 341-379
PickIndices(data_rows) ==
    LET headers == data_rows[1]
        guess == FirstGuess(headers, data_rows[2], 0, NoIndex, NoIndex)
        label == IF guess.label = NoIndex THEN 0 ELSE guess.label
        scan == FirstFloatColumn(headers, data_rows[2], label)
    IN  [label |-> label,
         value |-> IF guess.value # NoIndex THEN guess.value
                   ELSE IF scan # NoIndex THEN scan
                   ELSE NextAvailable(headers, label)]

\* line 387: the data rows that are long enough for both indices
RowsUsed(data_rows, label, value) ==
    SelectSeq(SubSeq(data_rows, 2, Len(data_rows)),
              LAMBDA row : Len(row) > label /\ Len(row) > value)

UpInit ==
    /\ preview \in Previews
    /\ up_pc = "idle"
    /\ up_caller = ""
    /\ up_calls = 0
    /\ up_row = 1
    /\ tbl_exists = FALSE
    /\ tbl_creations = 0
    /\ tbl_rows = <<>>
    /\ label_field_index = NoIndex
    /\ value_field_index = NoIndex
    /\ up_result = NoDataset

\* a client calls create_table_from_insights_data (line 261), or
\* get_table_data calls convert_uploaded_data_to_chart_dataset, which reads
\* the preview and calls create_table_from_insights_data (lines 321-324);
\* lines 263-269 read the columns
UpCall(caller) ==
    /\ up_pc = "idle"
    /\ up_calls < MaxCalls
    /\ up_caller' = caller
    /\ up_row' = 1
    /\ label_field_index' = NoIndex
    /\ value_field_index' = NoIndex
    /\ up_result' = NoDataset
    /\ up_pc' = "table_exists"
    /\ UNCHANGED <<preview, up_calls, tbl_exists, tbl_creations, tbl_rows>>
    /\ UNCHANGED <<sanVars, jsonVars, sqlVars, excelVars, dynVars, insVars, parseVars>>

\* lines 271-288: table_exists is false
UpCreateTable ==
    /\ up_pc = "table_exists"
    /\ ~tbl_exists
    /\ tbl_exists' = TRUE
    /\ tbl_creations' = tbl_creations + 1
    /\ up_pc' = "insert"
    /\ UNCHANGED <<preview, up_caller, up_calls, up_row, tbl_rows,
                   label_field_index, value_field_index, up_result>>
    /\ UNCHANGED <<sanVars, jsonVars, sqlVars, excelVars, dynVars, insVars, parseVars>>

\* variant of UpSkipCreation: the call creates the table again
UpSkipCreation_CreatesAgain ==
    /\ up_pc = "table_exists"
    /\ tbl_exists
    /\ tbl_creations' = tbl_creations + 1
    /\ up_pc' = "insert"
    /\ UNCHANGED <<preview, up_caller, up_calls, up_row, tbl_exists,
                   tbl_rows, label_field_index, value_field_index, up_result>>
    /\ UNCHANGED <<sanVars, jsonVars, sqlVars, excelVars, dynVars, insVars, parseVars>>

\* lines 289-290: table_exists is true
UpSkipCreation ==
    /\ up_pc = "table_exists"
    /\ tbl_exists
    /\ up_pc' = "insert"
    /\ UNCHANGED <<preview, up_caller, up_calls, up_row, tbl_exists, tbl_creations,
                   tbl_rows, label_field_index, value_field_index, up_result>>
    /\ UNCHANGED <<sanVars, jsonVars, sqlVars, excelVars, dynVars, insVars, parseVars>>

\* lines 299-310: one turn of the loop over data, the header row included
UpInsertRow ==
    /\ up_pc = "insert"
    /\ up_row <= Len(preview)
    /\ tbl_rows' = Append(tbl_rows, preview[up_row])
    /\ up_row' = up_row + 1
    /\ UNCHANGED <<preview, up_pc, up_caller, up_calls, tbl_exists, tbl_creations,
                   label_field_index, value_field_index, up_result>>
    /\ UNCHANGED <<sanVars, jsonVars, sqlVars, excelVars, dynVars, insVars, parseVars>>

\* lines 312-314: commit and return the message; the client gets it, or
\* convert_uploaded_data_to_chart_dataset goes on with line 325
UpTableReturn ==
    /\ up_pc = "insert"
    /\ up_row > Len(preview)
    /\ up_calls' = up_calls + 1
    /\ IF up_caller = "create_table"
       THEN /\ up_result' = [kind |-> "message", rows |-> Len(preview)]
            /\ up_pc' = "idle"
       ELSE /\ up_pc' = "convert"
            /\ UNCHANGED up_result
    /\ UNCHANGED <<preview, up_caller, up_row, tbl_exists, tbl_creations, tbl_rows,
                   label_field_index, value_field_index>>
    /\ UNCHANGED <<sanVars, jsonVars, sqlVars, excelVars, dynVars, insVars, parseVars>>

\* lines 326-333: fewer than two rows
UpReturnEmpty ==
    /\ up_pc = "convert"
    /\ Len(preview) < 2
    /\ up_result' = EmptyDataset
    /\ up_pc' = "idle"
    /\ UNCHANGED <<preview, up_caller, up_calls, up_row, tbl_exists, tbl_creations,
                   tbl_rows, label_field_index, value_field_index>>
    /\ UNCHANGED <<sanVars, jsonVars, sqlVars, excelVars, dynVars, insVars, parseVars>>

\* lines 336-379
UpPickFields ==
    /\ up_pc = "convert"
    /\ Len(preview) >= 2
    /\ label_field_index' = PickIndices(preview).label
    /\ value_field_index' = PickIndices(preview).value
    /\ up_pc' = "build"
    /\ UNCHANGED <<preview, up_caller, up_calls, up_row, tbl_exists, tbl_creations,
                   tbl_rows, up_result>>
    /\ UNCHANGED <<sanVars, jsonVars, sqlVars, excelVars, dynVars, insVars, parseVars>>

\* lines 381-402
UpReturnDataset ==
    /\ up_pc = "build"
    /\ value_field_index < Len(preview[1])
    /\ LET rows == RowsUsed(preview, label_field_index, value_field_index)
       IN  up_result' =
              [kind |-> "return",
               labels |-> [r \in 1..Len(rows) |-> rows[r][label_field_index + 1]],
               datasets |-> <<[name |-> preview[1][value_field_index + 1],
                               values |-> [r \in 1..Len(rows) |->
                                   IF CellFloatReturns(rows[r][value_field_index + 1])
                                   THEN rows[r][value_field_index + 1] ELSE "0"]]>>]
    /\ up_pc' = "idle"
    /\ UNCHANGED <<preview, up_caller, up_calls, up_row, tbl_exists, tbl_creations,
                   tbl_rows, label_field_index, value_field_index>>
    /\ UNCHANGED <<sanVars, jsonVars, sqlVars, excelVars, dynVars, insVars, parseVars>>

\* line 397: headers[value_field_index] raises IndexError
UpBuildRaises ==
    /\ up_pc = "build"
    /\ value_field_index >= Len(preview[1])
    /\ up_result' = [kind |-> "raise", error |-> "IndexError"]
    /\ up_pc' = "idle"
    /\ UNCHANGED <<preview, up_caller, up_calls, up_row, tbl_exists, tbl_creations,
                   tbl_rows, label_field_index, value_field_index>>
    /\ UNCHANGED <<sanVars, jsonVars, sqlVars, excelVars, dynVars, insVars, parseVars>>

NextUp ==
    \/ \E caller \in {"create_table", "convert"} : UpCall(caller)
    \/ UpCreateTable
    \/ UpSkipCreation
    \/ UpInsertRow
    \/ UpTableReturn
    \/ UpReturnEmpty
    \/ UpPickFields
    \/ UpReturnDataset
    \/ UpBuildRaises

InitUp ==
    /\ SanIdle /\ JsonIdle /\ SqlIdle
    /\ ExcelIdle /\ DynIdle /\ UpInit /\ InsIdle /\ ParseIdle

SpecUp == InitUp /\ [][NextUp]_vars

----------------------------------------------------------------------------
(* chartapi.py main_parse_frappe: the table, its schema, the generated SQL, *)
(* analyze_sql_query on it and fetch_data_for_chart, all inside one try.    *)
(* While an exception travels to the handler of line 228, parse_result      *)
(* holds it.                                                                 *)

\* an exception of the named step, in flight
Raised(step) == [kind |-> "raise", step |-> step]

\* lines 230-233
ErrorRecord(step) == [kind |-> "return", status |-> "error", message |-> step]

\* line 118 and 119: the answer of the model, stripped; an empty one raises
GeneratedQueries == {StripSpace(q) : q \in Queries} \ {<<>>}

\* what frappe.db.sql gives for the query of the suggestion
DbOutcomes == {"rows", "empty", "raise"}

ParseInit ==
    /\ parse_pc = "call"
    /\ parse_result = NoDataset

\* line 192, read_frappe_table (lines 17-43): the rows, or frappe.throw
\* from its handler when the query fails or finds nothing
ParseReadTable ==
    /\ parse_pc = "call"
    /\ \E db \in DbOutcomes :
          IF db = "rows"
          THEN parse_pc' = "schema" /\ UNCHANGED parse_result
          ELSE parse_pc' = "raised" /\ parse_result' = Raised("read_frappe_table")
    /\ UNCHANGED <<sanVars, jsonVars, sqlVars, excelVars, dynVars, upVars, insVars>>

\* line 194, get_table_schema (lines 47-79): DESCRIBE may raise
ParseReadSchema ==
    /\ parse_pc = "schema"
    /\ \E db \in {"rows", "raise"} :
          IF db = "rows"
          THEN parse_pc' = "generate" /\ UNCHANGED parse_result
          ELSE parse_pc' = "raised" /\ parse_result' = Raised("get_table_schema")
    /\ UNCHANGED <<sanVars, jsonVars, sqlVars, excelVars, dynVars, upVars, insVars>>

\* lines 198-214, get_sql_query (lines 106-121): a text that is not empty;
\* analyze_sql_query is called on it
ParseGenerate ==
    /\ parse_pc = "generate"
    /\ \E q \in GeneratedQueries : sql_query' = q
    /\ sql_pc' = "call"
    /\ parse_pc' = "analyze"
    /\ UNCHANGED <<sql_final, aggregations, group_by_match, order_by, limit,
                   time_columns, select_clause, sql_columns, chart_type, x_axis,
                   y_axis, sql_result, previous_result>>
    /\ UNCHANGED parse_result
    /\ UNCHANGED <<sanVars, jsonVars, excelVars, dynVars, upVars, insVars>>

\* lines 113-123: the request fails or the answer is empty, ValueError
ParseGenerateRaises ==
    /\ parse_pc = "generate"
    /\ parse_pc' = "raised"
    /\ parse_result' = Raised("get_sql_query")
    /\ UNCHANGED <<sanVars, jsonVars, sqlVars, excelVars, dynVars, upVars, insVars>>

\* line 214: analyze_sql_query raised IndexError
ParseAnalyzeRaised ==
    /\ parse_pc = "analyze"
    /\ sql_pc = "done"
    /\ sql_result.kind = "raise"
    /\ parse_pc' = "raised"
    /\ parse_result' = Raised("analyze_sql_query")
    /\ UNCHANGED <<sanVars, jsonVars, sqlVars, excelVars, dynVars, upVars, insVars>>

\* line 222, fetch_data_for_chart lines 239-275: the query gives rows and
\* the dataset is returned
ParseFetchReturns ==
    /\ parse_pc = "analyze"
    /\ sql_pc = "done"
    /\ sql_result.kind = "return"
    /\ sql_result.has_sql_query
    /\ parse_result' = [kind |-> "return", status |-> "dataset",
                        chart_type |-> sql_result.chart_type]
    /\ parse_pc' = "done"
    /\ UNCHANGED <<sanVars, jsonVars, sqlVars, excelVars, dynVars, upVars, insVars>>

\* lines 239-244 and 276-278: frappe.db.sql raises (as it does on the None
\* of a suggestion without sql_query) or gives no rows, and the handler of
\* fetch_data_for_chart calls frappe.throw
ParseFetchThrows ==
    /\ parse_pc = "analyze"
    /\ sql_pc = "done"
    /\ sql_result.kind = "return"
    /\ \E db \in IF sql_result.has_sql_query THEN {"empty", "raise"} ELSE {"raise"} :
          parse_result' = Raised("fetch_data_for_chart")
    /\ parse_pc' = "raised"
    /\ UNCHANGED <<sanVars, jsonVars, sqlVars, excelVars, dynVars, upVars, insVars>>

\* variant of ParseExcept: the exception leaves main_parse_frappe
ParseExcept_Propagates ==
    /\ parse_pc = "raised"
    /\ parse_pc' = "done"
    /\ UNCHANGED parse_result
    /\ UNCHANGED <<sanVars, jsonVars, sqlVars, excelVars, dynVars, upVars, insVars>>

\* lines 228-233
ParseExcept ==
    /\ parse_pc = "raised"
    /\ parse_result' = ErrorRecord(parse_result.step)
    /\ parse_pc' = "done"
    /\ UNCHANGED <<sanVars, jsonVars, sqlVars, excelVars, dynVars, upVars, insVars>>

NextParse ==
    \/ ParseReadTable
    \/ ParseReadSchema
    \/ ParseGenerate
    \/ ParseGenerateRaises
    \/ RefineQuery
    \/ SearchPatterns
    \/ ReturnDegenerate
    \/ RaiseIndexError
    \/ DecideAxes
    \/ ReturnSuggestion
    \/ ParseAnalyzeRaised
    \/ ParseFetchReturns
    \/ ParseFetchThrows
    \/ ParseExcept

InitParse ==
    /\ SanIdle /\ JsonIdle /\ SqlIdle
    /\ ExcelIdle /\ DynIdle /\ UpIdle /\ InsIdle /\ ParseInit

SpecParse == InitParse /\ [][NextParse]_vars

----------------------------------------------------------------------------
(* Properties of the file-upload sanitizer                                 *)

\* every fieldname a call has generated so far, in order
Fieldnames(c) == [k \in 1..Len(fields[c]) |-> fields[c][k].fieldname]

\* the call went through the field loop and inserted the doctype
Created(c) == pc[c] = "done" /\ doctype[c].created

\* C1: within one batch the generated fieldnames are pairwise distinct, in
\* the field list being built and in the doctype that is inserted.
C1_FieldnamesDistinct ==
    \A c \in Calls :
        /\ \A j, k \in 1..Len(fields[c]) :
              j # k => fields[c][j].fieldname # fields[c][k].fieldname
        /\ \A j, k \in 1..Len(doctype[c].fields) :
              j # k => doctype[c].fields[j].fieldname # doctype[c].fields[k].fieldname

\* a doctype of three fields was inserted whose labels all normalize alike
C1_Witness ==
    \E c \in Calls :
        /\ Created(c)
        /\ Len(doctype[c].fields) = 3
        /\ \A j, k \in 1..3 :
              Normalize(doctype[c].fields[j].label) = Normalize(doctype[c].fields[k].label)

\* C2: every generated fieldname is non-empty and does not start with a
\* digit, whatever the label (empty, punctuation only, leading digit).
C2_NonEmptyNoLeadingDigit ==
    \A c \in Calls : \A k \in 1..Len(fields[c]) :
        /\ fields[c][k].fieldname # <<>>
        /\ fields[c][k].fieldname[1] \notin DigitChars

\* one batch held the empty label, a punctuation label and a digit label
C2_Witness ==
    \E c \in Calls :
        /\ Created(c)
        /\ \E k \in 1..Len(fields[c]) : fields[c][k].label = <<>>
        /\ \E k \in 1..Len(fields[c]) :
              fields[c][k].label # <<>> /\ Normalize(fields[c][k].label) = <<>>
        /\ \E k \in 1..Len(fields[c]) :
              fields[c][k].label # <<>> /\ fields[c][k].label[1] \in DigitChars

\* [a-z_][a-z0-9_]*
MatchesIdentifier(s) ==
    /\ s # <<>>
    /\ s[1] \in Range(AsciiLower) \cup {"_"}
    /\ \A k \in 1..Len(s) : s[k] \in Range(AsciiLower) \cup Range(AsciiDigit) \cup {"_"}

\* C3: every generated fieldname matches [a-z_][a-z0-9_]*.
C3_MatchesPattern ==
    \A c \in Calls : \A k \in 1..Len(fields[c]) :
        MatchesIdentifier(fields[c][k].fieldname)

\* C4: no generated fieldname is a reserved word.
C4_NeverReserved ==
    \A c \in Calls : \A k \in 1..Len(fields[c]) :
        fields[c][k].fieldname \notin RESERVED_KEYWORDS

\* the names taken before field j was generated, and field j's candidate
UsedBefore(c, j) == {fields[c][m].fieldname : m \in 1..(j - 1)}
CandidateOf(c, j) == Candidate(fields[c][j].label, SubSeq(fields[c], 1, j - 1))
WithSuffix(cand, k) == cand \o <<"_">> \o IntToStr(k)

\* C6: a candidate that is already used comes out as candidate_k for the
\* smallest k >= 1 whose candidate_k is unused, and the result joins the
\* used set; "Total" then "total" give total and total_1.  Fields are only
\* ever appended, so every field is once the newest one: the formula looks
\* at the newest field of every state.
C6_SmallestFreeSuffix ==
    \A c \in Calls :
        /\ LET j == Len(fields[c])
               cand == CandidateOf(c, j)
               used == UsedBefore(c, j)
           IN  (j > 0 /\ cand \in used) =>
                  \E k \in 1..j :
                      /\ fields[c][j].fieldname = WithSuffix(cand, k)
                      /\ fields[c][j].fieldname \notin used
                      /\ \A m \in 1..(k - 1) : WithSuffix(cand, m) \in used
        /\ used_fieldnames[c] = Range(Fieldnames(c))
        /\ (Created(c) /\ columns[c] = <<L_Total, L_total>>) =>
              Fieldnames(c) = <<L_total, L_total_1>>

\* a candidate was used and so was candidate_1: the result is candidate_2
C6_Witness ==
    \E c \in Calls : \E j \in 1..Len(fields[c]) :
        /\ Created(c)
        /\ CandidateOf(c, j) \in UsedBefore(c, j)
        /\ fields[c][j].fieldname = WithSuffix(CandidateOf(c, j), 2)

\* The candidate as the text describes it: cut to 140 characters,
\* lower-cased, each run of characters that are no letter, digit or
\* underscore marked by one underscore, the outer underscores dropped.
StatedCut(label) == [k \in 1..Min(Len(label), 140) |-> label[k]]
StatedRuns(t) ==
    SelectSeq([p \in 1..Len(t) |->
                  IF t[p] \in WordChars THEN t[p]
                  ELSE IF p = 1 \/ t[p - 1] \in WordChars THEN "_"
                  ELSE "dropped"],
              LAMBDA x : x # "dropped")
StatedStrip(r) ==
    IF \A k \in 1..Len(r) : r[k] = "_" THEN <<>>
    ELSE LET first == CHOOSE k \in 1..Len(r) :
                          r[k] # "_" /\ \A j \in 1..(k - 1) : r[j] = "_"
             last  == CHOOSE k \in 1..Len(r) :
                          r[k] # "_" /\ \A j \in (k + 1)..Len(r) : r[j] = "_"
         IN  [k \in 1..(last - first + 1) |-> r[first + k - 1]]
StatedNormal(label) == StatedStrip(StatedRuns(Lower(StatedCut(label))))
StatedCandidate(label) ==
    LET n == StatedNormal(label)
    IN  IF n # <<>> /\ n[1] \in DigitChars THEN <<"_">> \o n ELSE n

\* the label whose candidate a call is about to de-duplicate
CurrentLabel(c) == columns[c][col_i[c]]

\* C7 as stated: for every label the candidate before de-duplication is
\* the normalized label, with an underscore before a leading digit.
C7_CandidateForEveryLabel ==
    \A c \in Calls :
        pc[c] = "while" => original_fieldname[c] = StatedCandidate(CurrentLabel(c))

\* C7 amended: the same for every label whose normalized form is not
\* empty; "2nd Quarter Sales" gives _2nd_quarter_sales.
C7_CandidateOfNonEmpty ==
    \A c \in Calls :
        pc[c] = "while" =>
            /\ StatedNormal(CurrentLabel(c)) # <<>> =>
                  original_fieldname[c] = StatedCandidate(CurrentLabel(c))
            /\ CurrentLabel(c) = L_2nd =>
                  original_fieldname[c] =
                     <<"_","2","n","d","_","q","u","a","r","t","e","r","_",
                       "s","a","l","e","s">>

\* the candidate of a label longer than 140 characters is being de-duplicated
C7_Witness ==
    \E c \in Calls :
        /\ pc[c] = "while"
        /\ Len(CurrentLabel(c)) > 140
        /\ StatedNormal(CurrentLabel(c)) # <<>>
        /\ col_i[c] > 1

\* C8: a label that normalizes to the empty string gets the candidate
\* field_<n>, n its 0-based position in the batch; every earlier label has
\* produced exactly one field.
C8_PositionalPlaceholder ==
    \A c \in Calls :
        /\ Len(fields[c]) = col_i[c] - 1
        /\ (pc[c] = "while" /\ Normalize(col_str[c]) = <<>>) =>
              original_fieldname[c] =
                 <<"f","i","e","l","d","_">> \o IntToStr(col_i[c] - 1)

\* the third label of a batch normalizes to the empty string
C8_Witness ==
    \E c \in Calls :
        /\ pc[c] = "while"
        /\ col_i[c] = 3
        /\ Normalize(col_str[c]) = <<>>

----------------------------------------------------------------------------
(* Properties of sanitize_fieldname (JSON path)                            *)

\* the key the last call of sanitize_fieldname was given
LastKey == first_row[json_i - 1].key

StatedNormalKey(key) ==
    [k \in 1..Len(key) |-> IF key[k] = " " THEN "_" ELSE LowerChar(key[k])]

\* C5: sanitize_fieldname returns the key lower-cased with spaces replaced
\* by underscores, with _field appended exactly when that form is a
\* reserved keyword; the result is never reserved; "name" gives name_field.
C5_SanitizeFieldname ==
    json_i > 1 =>
        /\ fieldname =
              IF StatedNormalKey(LastKey) \in RESERVED_KEYWORDS
              THEN StatedNormalKey(LastKey) \o <<"_","f","i","e","l","d">>
              ELSE StatedNormalKey(LastKey)
        /\ fieldname \notin RESERVED_KEYWORDS
        /\ LastKey = K_name => fieldname = K_name_field

\* a key that is reserved only once lower-cased and underscored was sanitized
C5_Witness ==
    /\ json_i > 1
    /\ LastKey \notin RESERVED_KEYWORDS
    /\ StatedNormalKey(LastKey) \in RESERVED_KEYWORDS
    /\ \E k \in 1..Len(LastKey) : LastKey[k] = " "

----------------------------------------------------------------------------
(* Properties of the classifier                                            *)

\* the indices of q at which "select" stands, in any letter case
SelectsIn(q) == {i \in 1..Len(q) : LitAt(q, i, <<"s","e","l","e","c","t">>)}

\* C9: a text with no case-insensitive occurrence of SELECT is returned
\* unchanged by refine_sql_query and classified as exactly
\* {chart_type: "table", x_axis: "", y_axis: ""}; nothing is raised.
C9_NoSelectIsDegenerate ==
    SelectsIn(sql_query) = {} =>
        /\ sql_pc \in {"refined", "searched", "done"} => sql_final = sql_query
        /\ sql_pc = "done" =>
              /\ sql_result.kind = "return"
              /\ ~sql_result.has_sql_query
              /\ sql_result.chart_type = "table"
              /\ sql_result.x_axis = <<>>
              /\ sql_result.y_axis = <<>>

\* a text without SELECT that has a FROM, a GROUP BY and an aggregation
\* was classified
C9_Witness ==
    /\ sql_pc = "done"
    /\ SelectsIn(sql_query) = {}
    /\ \E i \in 1..Len(sql_query) : SpaceFromAt(sql_query, i)
    /\ group_by_match.matched
    /\ aggregations # <<>>

\* no "from", in any letter case, after the first SELECT of q
NoFromAfterSelect(q) ==
    /\ SelectsIn(q) # {}
    /\ \A p \in (MinOf(SelectsIn(q)) + 1)..Len(q) : ~LitAt(q, p, <<"f","r","o","m">>)

\* the first SELECT of q is followed by FROM with nothing between them
\* but whitespace
EmptyProjection(q) ==
    /\ SelectsIn(q) # {}
    /\ LET i == MinOf(SelectsIn(q))
       IN  /\ SpaceAt(q, i + 6)
           /\ LitAt(q, SpaceEnd(q, i + 6), <<"f","r","o","m">>)
           /\ Boundary(q, SpaceEnd(q, i + 6) + 4)

\* C10: a text that contains SELECT but no FROM after it, or whose
\* projection list is empty, is classified as the degenerate suggestion
\* and nothing is raised.
C10_DegenerateWithoutProjection ==
    (sql_pc = "done" /\ (NoFromAfterSelect(sql_query) \/ EmptyProjection(sql_query))) =>
        sql_result = Degenerate

----------------------------------------------------------------------------
(* The query as the text of the decision table reads it                    *)

\* the text is a query: it has a SELECT, a projection list after it and a
\* FROM after that
IsQuery(q) == SelectsIn(q) # {} /\ ~NoFromAfterSelect(q) /\ ~EmptyProjection(q)

\* the pieces of t between its commas, in order
SplitComma(t) ==
    LET commas == SelectSeq(Indices(t), LAMBDA p : t[p] = ",")
        from(k) == IF k = 1 THEN 1 ELSE commas[k - 1] + 1
        to(k) == IF k = Len(commas) + 1 THEN Len(t) ELSE commas[k] - 1
    IN  [k \in 1..(Len(commas) + 1) |-> SubSeq(t, from(k), to(k))]

\* the projection list of a normalized query: what stands between the
\* first SELECT and the first FROM after it
StatedProjection(s) ==
    LET a == MinOf(SelectsIn(s)) + 7
        froms == {p \in a..Len(s) : LitAtExact(s, p, <<" ","F","R","O","M">>) /\ ~WordAt(s, p + 5)}
    IN  IF froms = {} THEN <<>> ELSE SubSeq(s, a, MinOf(froms) - 1)

\* one item of the projection list: its expression, without the alias
StatedExpression(item) ==
    LET as == Find(item, <<" ","A","S"," ">>, 1)
    IN  StripQuote(StripSpace(IF as = 0 THEN item ELSE SubSeq(item, 1, as - 1)))

\* one item of the projection list: its alias, empty when it has none
StatedAlias(item) ==
    LET as == Find(item, <<" ","A","S"," ">>, 1)
    IN  IF as = 0 THEN <<>> ELSE StripQuote(StripSpace(SubSeq(item, as + 4, Len(item))))

\* the projected columns of a normalized query
StatedColumns(s) ==
    LET items == SplitComma(StatedProjection(s))
    IN  [k \in 1..Len(items) |-> StatedExpression(items[k])]

\* the names the projection list gives: its expressions and its aliases
StatedNames(s) ==
    LET items == SplitComma(StatedProjection(s))
    IN  {StatedExpression(items[k]) : k \in 1..Len(items)}
        \cup {StatedAlias(items[k]) : k \in 1..Len(items)}

\* the column contains sum, avg, count, max or min, in any letter case
StatedHasAggregation(col) ==
    \E a \in 1..Len(AggNames) : Contains(Lower(col), AggNames[a])

\* the first projected column that contains an aggregation keyword
StatedAggregated(cols, default) ==
    LET hits == {k \in 1..Len(cols) : StatedHasAggregation(cols[k])}
    IN  IF hits = {} THEN default ELSE cols[MinOf(hits)]

\* the text after GROUP BY up to the next ORDER BY, LIMIT or statement end
StatedGroupBy(s) ==
    LET a == Find(s, <<"G","R","O","U","P"," ","B","Y"," ">>, 1) + 9
        stops == {p \in a..Len(s) :
                     \/ LitAtExact(s, p, <<"O","R","D","E","R"," ","B","Y">>)
                     \/ LitAt(s, p, <<"l","i","m","i","t">>)
                     \/ s[p] = ";"}
    IN  StripSpace(SubSeq(s, a, IF stops = {} THEN Len(s) ELSE MinOf(stops) - 1))

\* one of the whole words date, time, year, month, day, in any letter case
StatedTimeWord(s) ==
    \E i \in 1..Len(s) : \E w \in 1..Len(TimeWords) :
        /\ LitAt(s, i, TimeWords[w])
        /\ ~WordBefore(s, i)
        /\ ~WordAt(s, i + Len(TimeWords[w]))

\* the alias of the first AS <alias> of a normalized query, empty when
\* there is none
StatedFirstAlias(s) ==
    LET at == {p \in 1..Len(s) :
                  /\ LitAt(s, p, <<"a","s"," ">>)
                  /\ ~WordBefore(s, p)
                  /\ WordAt(s, p + 3)}
    IN  IF at = {} THEN <<>>
        ELSE LET b == MinOf(at) + 3
                 e == CHOOSE e \in b..Len(s) :
                          /\ \A k \in b..e : s[k] \in WordChars
                          /\ (e = Len(s) \/ s[e + 1] \notin WordChars)
             IN  SubSeq(s, b, e)

\* the call returned a suggestion that carries the normalized query
Returned == sql_pc = "done" /\ sql_result.kind = "return" /\ sql_result.has_sql_query

----------------------------------------------------------------------------
(* Properties of the decision table                                        *)

\* C11: a query with no aggregation function and no GROUP BY that
\* projects exactly one column is classified scatter with x_axis that
\* column and y_axis empty; nothing is raised.
C11_SingleColumnIsScatter ==
    (/\ sql_pc = "done"
     /\ IsQuery(sql_query)
     /\ aggregations = <<>>
     /\ ~group_by_match.matched
     /\ Len(StatedColumns(sql_final)) = 1) =>
        /\ Returned
        /\ sql_result.chart_type = "scatter"
        /\ sql_result.x_axis = StatedColumns(sql_final)[1]
        /\ sql_result.y_axis = <<>>

\* C12: for a query with no aggregation function x_axis is the first
\* projected column and y_axis the remaining ones joined by ", ", the
\* last one before FROM included; chart_type is scatter without GROUP BY
\* and table with it.
C12_AxesOfPlainProjection ==
    (sql_pc = "done" /\ IsQuery(sql_query) /\ aggregations = <<>>) =>
        /\ Returned
        /\ sql_result.chart_type =
              (IF group_by_match.matched THEN "table" ELSE "scatter")
        /\ sql_result.x_axis = StatedColumns(sql_final)[1]
        /\ sql_result.y_axis = JoinComma(Tail(StatedColumns(sql_final)))

\* C13: a query with an aggregation, a GROUP BY, an ORDER BY and a LIMIT
\* is classified bar with x_axis the GROUP BY column, whether or not a time
\* word is present and however many aggregations there are.
C13_OrderLimitIsBar ==
    (/\ sql_pc = "done"
     /\ IsQuery(sql_query)
     /\ aggregations # <<>>
     /\ group_by_match.matched
     /\ order_by
     /\ limit) =>
        /\ Returned
        /\ sql_result.chart_type = "bar"
        /\ sql_result.x_axis = StatedGroupBy(sql_final)

\* a query with two aggregations, a time word, GROUP BY, ORDER BY and
\* LIMIT was classified
C13_Witness ==
    /\ Returned
    /\ IsQuery(sql_query)
    /\ Len(aggregations) > 1
    /\ StatedTimeWord(sql_final)
    /\ group_by_match.matched
    /\ order_by
    /\ limit
    /\ sql_result.x_axis = <<"r","e","g","i","o","n">>

\* the chart type of the rows of the table that have aggregation and
\* GROUP BY but not both ORDER BY and LIMIT
StatedSeriesType(has_time, count) ==
    IF has_time
    THEN (IF count > 1 THEN "multi-series line" ELSE "line")
    ELSE (IF count > 1 THEN "multi-series bar" ELSE "bar")

\* C14: a query with aggregation and GROUP BY but not both ORDER BY and
\* LIMIT is a line type iff a time word is present, a bar type otherwise,
\* and the multi-series variant iff more than one aggregation occurs;
\* x_axis is the GROUP BY column.
C14_TimeAndSeries ==
    (/\ sql_pc = "done"
     /\ IsQuery(sql_query)
     /\ aggregations # <<>>
     /\ group_by_match.matched
     /\ ~(order_by /\ limit)) =>
        /\ Returned
        /\ sql_result.chart_type =
              StatedSeriesType(StatedTimeWord(sql_final), Len(aggregations))
        /\ sql_result.x_axis = StatedGroupBy(sql_final)

\* C15: a query with an aggregation and no GROUP BY is classified bar
\* with x_axis the first projected column and y_axis the first projected
\* column that contains an aggregation keyword, else the last projected
\* column; nothing is raised.
C15_UngroupedAggregation ==
    (/\ sql_pc = "done"
     /\ IsQuery(sql_query)
     /\ aggregations # <<>>
     /\ ~group_by_match.matched) =>
        /\ Returned
        /\ sql_result.chart_type = "bar"
        /\ sql_result.x_axis = StatedColumns(sql_final)[1]
        /\ sql_result.y_axis =
              LET cols == StatedColumns(sql_final)
              IN  StatedAggregated(cols, cols[Len(cols)])

\* C16: with aggregation and GROUP BY, y_axis before the fallback is the
\* first projected column whose expression contains sum, avg, count, max
\* or min, in whatever letter case the function is written.
C16_AggregatedColumn ==
    (/\ sql_pc = "decided"
     /\ IsQuery(sql_query)
     /\ aggregations # <<>>
     /\ group_by_match.matched) =>
        y_axis = StatedAggregated(StatedColumns(sql_final), <<>>)

\* C17: in a non-degenerate suggestion a non-empty x_axis, and every
\* comma-separated name of a non-empty y_axis, is a column of the
\* projection list of the query.
C17_AxesAreProjected ==
    (Returned /\ IsQuery(sql_query)) =>
        /\ sql_result.x_axis # <<>> =>
              sql_result.x_axis \in StatedNames(sql_final)
        /\ sql_result.y_axis # <<>> =>
              LET names == SplitComma(sql_result.y_axis)
              IN  \A k \in 1..Len(names) :
                      StripSpace(names[k]) \in StatedNames(sql_final)

\* C18: the fallback step changes y_axis only when it is empty, to the
\* alias of the first AS <alias> of the normalized query if there is one;
\* chart_type and x_axis pass through it unchanged into the suggestion.
C18_FallbackFillsEmptyY ==
    [][sql_pc = "decided" =>
          /\ chart_type' = chart_type
          /\ x_axis' = x_axis
          /\ y_axis' = (IF y_axis # <<>> THEN y_axis ELSE StatedFirstAlias(sql_final))
          /\ sql_result'.chart_type = chart_type
          /\ sql_result'.x_axis = x_axis
          /\ sql_result'.y_axis = y_axis']_vars

\* the fallback supplied the y_axis of a grouped aggregation: it is no
\* column the decision could have chosen
C18_Witness ==
    /\ Returned
    /\ aggregations # <<>>
    /\ group_by_match.matched
    /\ sql_result.y_axis # <<>>
    /\ sql_result.y_axis \notin Range(sql_columns)
    /\ sql_result.y_axis = StatedFirstAlias(sql_final)

\* C19: time-column detection is case-insensitive: a query that holds one
\* of the whole words date, time, year, month, day in any letter case has
\* a time column, and so gets a line type where the table asks for one.
C19_TimeWordAnyCase ==
    /\ sql_pc \in {"searched", "decided", "done"} =>
          (time_columns # <<>>) = StatedTimeWord(sql_final)
    /\ (/\ Returned
        /\ IsQuery(sql_query)
        /\ aggregations # <<>>
        /\ group_by_match.matched
        /\ ~(order_by /\ limit)
        /\ StatedTimeWord(sql_final)) =>
           sql_result.chart_type \in {"line", "multi-series line"}

----------------------------------------------------------------------------
(* Properties of refine_sql_query                                          *)

\* the words of t (maximal runs of letters, digits and underscores), each as
\* the pair of its first and last index
WordsOf(t) ==
    {<<b, WordEnd(t, b) - 1>> :
        b \in {p \in 1..Len(t) : IsWord(t[p]) /\ (p = 1 \/ ~IsWord(t[p - 1]))}}

\* the words the listed keywords are made of, in lower case
StatedKeywordWords == {
    <<"s","e","l","e","c","t">>, <<"f","r","o","m">>, <<"w","h","e","r","e">>, <<"g","r","o","u","p">>, <<"b","y">>, <<"o","r","d","e","r">>, <<"h","a","v","i","n","g">>,
    <<"j","o","i","n">>, <<"l","e","f","t">>, <<"r","i","g","h","t">>, <<"i","n","n","e","r">>, <<"o","u","t","e","r">>, <<"o","n">>, <<"a","n","d">>, <<"o","r">>, <<"a","s">> }

StatedKeywords == {
    <<"s","e","l","e","c","t">>, <<"f","r","o","m">>, <<"w","h","e","r","e">>, <<"g","r","o","u","p"," ","b","y">>, <<"o","r","d","e","r"," ","b","y">>, <<"h","a","v","i","n","g">>,
    <<"j","o","i","n">>, <<"l","e","f","t"," ","j","o","i","n">>, <<"r","i","g","h","t"," ","j","o","i","n">>, <<"i","n","n","e","r"," ","j","o","i","n">>, <<"o","u","t","e","r"," ","j","o","i","n">>,
    <<"o","n">>, <<"a","n","d">>, <<"o","r">>, <<"a","s">> }

\* a and b are the same text up to the case of their letters
SameLetters(a, b) ==
    /\ Len(a) = Len(b)
    /\ \A k \in 1..Len(a) : LowerChar(a[k]) = LowerChar(b[k])

\* the tokens of t: its maximal runs of characters that are not whitespace
StatedTokens(t) ==
    LET first == SelectSeq(Indices(t),
                           LAMBDA p : ~IsSpace(t[p]) /\ (p = 1 \/ IsSpace(t[p - 1])))
        Last(p) == MinOf({j \in p..Len(t) : j = Len(t) \/ IsSpace(t[j + 1])})
    IN  [k \in 1..Len(first) |-> SubSeq(t, first[k], Last(first[k]))]

\* t with its tokens one space apart and no other whitespace
StatedSingleSpaced(t) == JoinWith(<<" ">>, StatedTokens(t))

\* the statement of q: from its first SELECT to the first `;` after it, or
\* to the end of q
StatedStatement(q) ==
    LET start == MinOf(SelectsIn(q))
        semis == {i \in start..Len(q) : q[i] = ";"}
    IN  SubSeq(q, start, IF semis = {} THEN Len(q) ELSE MinOf(semis))

\* part is a contiguous part of whole, up to the case of the letters
StatedPartOf(part, whole) ==
    \E i \in 1..(Len(whole) - Len(part) + 1) :
        SameLetters(part, SubSeq(whole, i, i + Len(part) - 1))

\* every whole-word occurrence of a listed keyword in out is upper-case
StatedKeywordsUpper(out) ==
    \A kw \in StatedKeywords : \A i \in 1..(Len(out) - Len(kw) + 1) :
        (Boundary(out, i) /\ Boundary(out, i + Len(kw)) /\ LitAt(out, i, kw)) =>
            \A k \in 1..Len(kw) : out[i + k - 1] \notin Range(AsciiLower)

\* every word of the statement of q that is not a keyword word stands in out
\* as a word, character for character
StatedIdentifiersKept(q, out) ==
    LET st == StatedStatement(q)
    IN  \A w \in WordsOf(st) :
            LET word == SubSeq(st, w[1], w[2])
            IN  [k \in 1..Len(word) |-> LowerChar(word[k])] \notin StatedKeywordWords =>
                    \E v \in WordsOf(out) : SubSeq(out, v[1], v[2]) = word

C22_CutAndSingleSpaced ==
    (sql_pc = "refined" /\ SelectsIn(sql_query) # {}) =>
        /\ SameLetters(sql_final, StatedSingleSpaced(StatedStatement(sql_query)))
        /\ \A p \in 1..Len(sql_final) :
              IsSpace(sql_final[p]) =>
                  /\ sql_final[p] = " "
                  /\ p > 1 /\ p < Len(sql_final)
                  /\ ~IsSpace(sql_final[p + 1])

----------------------------------------------------------------------------
(* Properties of uploads that run side by side, and termination            *)

\* the name the uniqueness loop ends with when it starts from cand: cand
\* itself, or cand with the smallest suffix that is free
StatedFree(cand, used) ==
    IF cand \notin used THEN cand
    ELSE Suffixed(cand, MinOf({k \in 1..(Cardinality(used) + 1) :
                                  Suffixed(cand, k) \notin used}))

\* the fields one call builds from cols when nothing runs beside it, given
\* the fields flds it has built and the names used so far
RECURSIVE RunAlone(_, _, _)
RunAlone(cols, flds, used) ==
    IF Len(flds) >= Len(cols) THEN flds
    ELSE LET label == Truncate(cols[Len(flds) + 1])
             name == StatedFree(Candidate(label, flds), used)
         IN  RunAlone(cols, Append(flds, Field(name, label)), used \cup {name})

\* C23: whatever the interleaving of two calls, the fields each has built
\* are those it builds alone, and its set of used names holds its own
\* fieldnames and no others.
C23_CallsDoNotShare ==
    \A c \in Calls :
        LET alone == RunAlone(columns[c], <<>>, {})
        IN  /\ Len(fields[c]) <= Len(alone)
            /\ fields[c] = SubSeq(alone, 1, Len(fields[c]))
            /\ used_fieldnames[c] = {fields[c][k].fieldname : k \in 1..Len(fields[c])}
            /\ doctype[c].created => doctype[c].fields = alone

\* both calls are in their second column with the same name in hand, which
\* each of them has used already
C23_Witness ==
    /\ Calls = {1, 2}
    /\ pc[1] = "while" /\ pc[2] = "while"
    /\ col_i[1] = 2 /\ col_i[2] = 2
    /\ sanitized_fieldname[1] = <<"t","o","t","a","l">>
    /\ sanitized_fieldname[2] = <<"t","o","t","a","l">>
    /\ used_fieldnames[1] = {<<"t","o","t","a","l">>}
    /\ used_fieldnames[2] = {<<"t","o","t","a","l">>}

\* C24: the uniqueness loop takes at most one turn per used name, the call
\* comes to its end, and when the batch loop has ended there is exactly one
\* field per column.
C24_SanitizerTerminates ==
    /\ [](\A c \in Calls : counter[c] <= Cardinality(used_fieldnames[c]) + 1)
    /\ [](\A c \in Calls :
            (pc[c] = "thrown" \/ doctype[c].created) =>
                Len(fields[c]) = Len(columns[c]))
    /\ <>(pc[1] \in {"done", "thrown"})

\* a call has ended whose last column took two turns of the loop
C24_Witness ==
    /\ pc[1] = "done"
    /\ doctype[1].created
    /\ Len(columns[1]) = 3
    /\ counter[1] = 3
    /\ Len(doctype[1].fields) = 3

----------------------------------------------------------------------------
(* Properties of the Excel path                                            *)

\* C30: the attribute a cell of a column is set on is the fieldname that
\* create_dynamic_doctype made for that column, a field of the doctype.
C30_CellsLandInCreatedFields ==
    xl_pc \in {"insert", "done"} =>
        \A k \in 1..Len(xl_written) :
            /\ xl_written[k] = ExcelFieldname(xl_columns[k])
            /\ \E f \in 1..Len(xl_fields) : xl_fields[f].fieldname = xl_written[k]

----------------------------------------------------------------------------
(* Properties of insert_data_into_doctype                                  *)

\* the rows before position n that raise nothing, in input order
SoundRowsBefore(n) ==
    SelectSeq([k \in 1..(n - 1) |-> k], LAMBDA k : data[k] = "none")

\* C26: a row that fails does not stop the batch: the function never
\* raises, every row before the current one was attempted, the rows that
\* did not fail were inserted once each and in input order, and at the
\* return every row has been attempted.
C26_FailingRowDoesNotStopBatch ==
    /\ ins_pc \in {"idle", "call", "loop", "returned"}
    /\ ins_pc \in {"loop", "returned"} =>
          /\ ins_inserted = SoundRowsBefore(ins_row)
          /\ Len(ins_inserted) + Len(ins_logged) = ins_row - 1
    /\ ins_pc = "returned" => ins_row = Len(data) + 1

\* a batch whose first row fails in doc.insert() and whose second row fails
\* while it is built has returned with its third row inserted
C26_Witness ==
    /\ ins_pc = "returned"
    /\ data = <<"insert", "build", "none">>
    /\ ins_inserted = <<3>>
    /\ ins_logged = <<1, 2>>

----------------------------------------------------------------------------
(* Properties of convert_dynamic_json_to_chart_dataset                     *)

StatedExcluded == {
    <<"n","a","m","e">>, <<"c","r","e","a","t","i","o","n">>, <<"m","o","d","i","f","i","e","d">>, <<"m","o","d","i","f","i","e","d","_","b","y">>, <<"o","w","n","e","r">>,
    <<"d","o","c","s","t","a","t","u","s">>, <<"i","d","x">> }

\* the key may serve as label or value field
StatedUsable(key) == key \notin StatedExcluded /\ ~(key # <<>> /\ key[1] = "_")

\* C25: the label and the value field are never excluded fields or fields
\* that start with an underscore; when both are found they are two distinct
\* keys of the first record; the function returns the empty dataset when it
\* has not found both, and otherwise labels and values with one entry for
\* each record.
C25_FieldsAndDataset ==
    /\ label_field.found => StatedUsable(label_field.key)
    /\ value_field.found => StatedUsable(value_field.key)
    /\ (label_field.found /\ value_field.found) =>
          /\ label_field.key # value_field.key
          /\ \E p \in 1..Len(json_data[1]) : json_data[1][p].key = label_field.key
          /\ \E p \in 1..Len(json_data[1]) : json_data[1][p].key = value_field.key
    /\ dyn_pc = "done" =>
          IF label_field.found /\ value_field.found
          THEN /\ dyn_result.kind = "return"
               /\ Len(dyn_result.labels) = Len(json_data)
               /\ Len(dyn_result.datasets) = 1
               /\ Len(dyn_result.datasets[1].values) = Len(json_data)
          ELSE dyn_result = [kind |-> "return", labels |-> <<>>, datasets |-> <<>>]

----------------------------------------------------------------------------
(* Properties of convert_uploaded_data_to_chart_dataset and of             *)
(* create_table_from_insights_data                                        *)

\* the call of convert_uploaded_data_to_chart_dataset has ended
ConvertEnded == up_pc = "idle" /\ up_caller = "convert" /\ up_result # NoDataset

\* C28: for a preview of a header row and at least one data row, the label
\* and value indices that convert_uploaded_data_to_chart_dataset picks are
\* indices of the header row, building the dataset does not fail, and the
\* labels and the values returned have the same length.
C28_IndicesValid ==
    /\ up_pc = "build" =>
          /\ label_field_index \in 0..(Len(preview[1]) - 1)
          /\ value_field_index \in 0..(Len(preview[1]) - 1)
    /\ (ConvertEnded /\ Len(preview) >= 2) =>
          /\ up_result.kind = "return"
          /\ Len(up_result.datasets) = 1
          /\ Len(up_result.labels) = Len(up_result.datasets[1].values)

\* copies of the preview rows, one after the other
RECURSIVE Copies(_, _)
Copies(n, rows) == IF n = 0 THEN <<>> ELSE Copies(n - 1, rows) \o rows

\* C29: in a sequence of create_table_from_insights_data calls for one
\* table name the table is created exactly once, by the first call, and the
\* later calls skip the creation; every call inserts all preview rows, so
\* after n calls the table holds n copies of the preview rows.
C29_CreatedOnceRowsEveryCall ==
    /\ tbl_creations <= 1
    /\ tbl_exists <=> tbl_creations = 1
    /\ up_calls >= 1 => tbl_creations = 1
    /\ up_pc \in {"idle", "convert", "build"} => tbl_rows = Copies(up_calls, preview)
    /\ up_pc = "insert" =>
          tbl_rows = Copies(up_calls, preview) \o SubSeq(preview, 1, up_row - 1)

C29_Witness ==
    /\ up_calls = 2
    /\ up_pc = "idle"
    /\ Len(preview) = 3
    /\ tbl_creations = 1
    /\ Len(tbl_rows) = 6

----------------------------------------------------------------------------
(* Properties of main_parse_frappe                                         *)

StatedSteps == {"read_frappe_table", "get_table_schema", "get_sql_query",
                "analyze_sql_query", "fetch_data_for_chart"}

\* C27: main_parse_frappe never lets an exception reach its caller: a
\* failure while it reads the table, fetches the schema, generates the SQL,
\* classifies it or fetches the chart data ends in a returned record with
\* status "error", the suggestion without sql_query included; otherwise the
\* chart dataset is returned.
C27_NoExceptionLeaves ==
    parse_pc = "done" =>
       /\ parse_result.kind = "return"
       /\ parse_result.status \in {"error", "dataset"}
       /\ parse_result.status = "error" => parse_result.message \in StatedSteps
       /\ (sql_pc = "idle" \/ sql_result.kind = "raise" \/ ~sql_result.has_sql_query)
             => parse_result.status = "error"
       /\ parse_result.status = "dataset" =>
             /\ sql_pc = "done"
             /\ sql_result.kind = "return"
             /\ parse_result.chart_type = sql_result.chart_type

C27_Witness ==
    /\ parse_pc = "done"
    /\ sql_pc = "done"
    /\ sql_result.kind = "return"
    /\ ~sql_result.has_sql_query
    /\ parse_result = [kind |-> "return", status |-> "error",
                       message |-> "fetch_data_for_chart"]

====
